---- MODULE Spec2Model ----
(***************************************************************************)
(* Model of the Z80 test harness (Zat), its run loop, the bus plumbing     *)
(* between the Z80 interpreter and the harness, the step-mock chain and    *)
(* the I/O spy.                                                            *)
(*                                                                         *)
(*   Spec     the harness: load, hook installation, run / call, and the    *)
(*            run loop executing one Z80 instruction per iteration.        *)
(*   SpecSpy  the I/O spy: a script of phases driven by I/O reads/writes.  *)
(*   SpecMock the step-mock chain consulted by the run loop.               *)
(*   SpecProg compiled programs: load, symbol table, getAddress.           *)
(*   SpecSnap saveMemory / loadMemory around loads and runs.               *)
(*   SpecCpu  the Z80 alone: run_instruction() and interrupt() on fixtures.*)
(*   SpecNamed run() with start and breakAt given as symbols.              *)
(*   SpecBell the sound_bell routine called with a counting read hook.     *)
(***************************************************************************)
EXTENDS Integers, Sequences, FiniteSets, TLC

VARIABLES
    z80,            \* the CPU registers and the halted flag (class Z80)
    memory,         \* Zat.memory, kept sparse: only the non-zero cells
    onMemRead,      \* Zat.onMemRead hook ("unset" or the installed behaviour)
    onMemWrite,     \* Zat.onMemWrite hook
    onIoRead,       \* Zat.onIoRead hook
    onIoWrite,      \* Zat.onIoWrite hook
    onStep,         \* Zat.onStep hook: whether it is set, and its mock chain
    phase,          \* "idle" | "running" | "returned": position in Zat.run
    startSp,        \* run(): const startSp
    steps,          \* run(): let steps
    breakAt,        \* run(): let breakAt
    callOpt,        \* run(): runOptions.call
    callSp,         \* the sp argument of the call() that entered this run
    count,          \* run(): let count
    tStates,        \* run(): let tStates
    result,         \* value returned by the last run(): <<count, tStates>>
    stopReason,     \* which conjunct of the while condition ended the last run
    lastInstruction,\* tag of the last executed instruction
    bus,            \* bus transactions of the last executed instruction
    runs,           \* number of run()/call() invocations so far
    loads,          \* number of load() invocations so far
    spies,          \* IoSpy.spies
    spyIndex,       \* IoSpy.spyIndex
    spyFails,       \* number of jasmine failures raised by the spy (capped)
    spyThrew,       \* the last spy call threw a TypeError
    spyRet,         \* value returned by the last readSpy call
    ioCalls,        \* number of I/O transactions issued to the spy
    spyOp,          \* the last transaction issued to the spy: op, port, value
    iterations,     \* number of times the body of run()'s loop was entered
    staleHalted,    \* z80.halted as the current run() found it on entry
    hookEval,       \* the last evaluation of the onStep hook: observers
                    \* consulted, their answers, and the hook's answer
    mockCalls,      \* number of user callbacks invoked by fake-call observers
    callSite,       \* pc and sp before the last CALL or RST executed, and
                    \* the address it called
    symbols,        \* Zat.symbols: upper-case name -> address
    resolved,       \* what the last getAddress() call returned
    progOp,         \* the last getAddress()/loadProg() call and its arguments
    progOps,        \* number of getAddress()/loadProg()/saveMemory()/
                    \* loadMemory() calls
    saved,          \* the object the last saveMemory() returned
    savedAt,        \* backing memory and symbols when saveMemory() was called
    overwritten,    \* backing memory and symbols the last loadMemory() replaced
    cpuOp,          \* the last call made on the Z80 itself and its arguments
    cpuRet,         \* what the last run_instruction() returned
    cpuThrew,       \* whether the last call on the Z80 raised an exception
    cpuSteps,       \* number of calls made on the Z80 itself
    watched         \* the test's count of onMemRead calls for the address
                    \* it watches

harnessVars == <<z80, memory, onMemRead, onMemWrite, onIoRead, onIoWrite,
                 onStep, phase, startSp, steps, breakAt, callOpt, count,
                 tStates, result, stopReason, lastInstruction, bus, runs, loads,
                 iterations, staleHalted, callSp, hookEval, mockCalls,
                 callSite>>
spyVars == <<spies, spyIndex, spyFails, spyThrew, spyRet, ioCalls, spyOp>>
progVars == <<symbols, resolved, progOp, progOps>>
snapVars == <<saved, savedAt, overwritten>>
cpuVars == <<cpuOp, cpuRet, cpuThrew, cpuSteps>>
bellVars == <<watched>>
vars == <<harnessVars, spyVars, progVars, snapVars, cpuVars, bellVars>>

----------------------------------------------------------------------------
(* Bounds of the model *)

MaxSteps == 2       \* largest explicit runOptions.steps
MaxCount == 3       \* cap on count for runs with the default budget
MaxRuns  == 2       \* run()/call() invocations per behaviour
MaxLoads == 1       \* load() invocations per behaviour
MaxPhases == 2      \* phases of an I/O spy's script
MaxIo == 4          \* I/O transactions issued to an I/O spy
MaxProgOps == 3     \* getAddress()/loadProg() invocations per behaviour
MaxBellCount == 4200    \* cap on count for the sound_bell call
MaxCpuSteps == 4    \* run_instruction()/interrupt()/reset() calls on the Z80

(* Program constants *)

Undefined == 0 - 1          \* JavaScript undefined (outside every byte/word)
DefaultSteps == 10000000
defaultCallSp == 65280      \* 0xFF00

Word(x) == x % 65536
Byte(x) == x % 256

(***************************************************************************)
(* Backing memory (Zat.memory, a zero-filled Uint8Array(65536)).  Only the *)
(* non-zero cells are stored, so that equal memories are equal values.     *)
(***************************************************************************)
Backing(mem, addr) == IF addr \in DOMAIN mem THEN mem[addr] ELSE 0

Store(mem, addr, value) ==
    LET v == Byte(value)
        rest == [x \in (DOMAIN mem) \ {addr} |-> mem[x]]
    IN IF v = 0 THEN rest ELSE (addr :> v) @@ rest

\* Uint8Array.set(bytes, start)
RECURSIVE SetBytes(_, _, _)
SetBytes(mem, bytes, start) ==
    IF bytes = <<>> THEN mem
    ELSE SetBytes(Store(mem, start, Head(bytes)), Tail(bytes), start + 1)

(***************************************************************************)
(* The hooks a test installs.  Each hook is a function of the test; the    *)
(* model offers a few behaviours per hook.                                 *)
(***************************************************************************)
ShadowAddrs  == {7}     \* the addresses the "shadow" read hook answers for
GuardedAddrs == {64}    \* the addresses the "guard" write hook protects

\* onMemRead(addr): a byte, or undefined
OnMemReadAnswer(addr) ==
    CASE onMemRead = "undefined" -> Undefined
      [] onMemRead = "shadow"    -> IF addr \in ShadowAddrs THEN 0 ELSE Undefined
      [] OTHER                   -> Undefined

\* onMemWrite(addr, value): true suppresses the write
OnMemWriteAnswer(addr, value) ==
    CASE onMemWrite = "allow"    -> FALSE
      [] onMemWrite = "guard"    -> addr \in GuardedAddrs
      [] onMemWrite = "suppress" -> TRUE
      [] OTHER                   -> FALSE

\* onIoRead(port): the hook logs the port and returns 0x00
OnIoReadAnswer(port) == 0

(***************************************************************************)
(* Zat's bus callbacks, as handed to the Z80 constructor.  A machine state *)
(* m is a record [cpu, mem, bus, val]: the registers, the backing memory,  *)
(* the transactions issued so far and the value the last read returned.    *)
(***************************************************************************)
memReadValueNoUndefinedTest(mem, addr) ==
    IF onMemRead # "unset" /\ OnMemReadAnswer(addr) # Undefined
          /\ OnMemReadAnswer(addr) # 0
    THEN OnMemReadAnswer(addr)
    ELSE Backing(mem, addr)

\* Zat.memRead: the value returned
memReadValue(mem, addr) ==
    IF onMemRead # "unset" /\ OnMemReadAnswer(addr) # Undefined
    THEN OnMemReadAnswer(addr)
    ELSE Backing(mem, addr)

memWriteResultIgnoringHook(mem, addr, value) == Store(mem, addr, value)

\* Zat.memWrite: the backing memory afterwards
memWriteResult(mem, addr, value) ==
    IF onMemWrite # "unset" /\ OnMemWriteAnswer(addr, value)
    THEN mem
    ELSE Store(mem, addr, value)

\* Zat.ioRead: the value returned
ioReadValue(port) == IF onIoRead # "unset" THEN OnIoReadAnswer(port) ELSE 0

memRead(m, addr) ==
    [m EXCEPT !.val = memReadValue(m.mem, addr),
              !.bus = Append(@, [kind |-> "memRead", addr |-> addr,
                                 hooked |-> onMemRead # "unset",
                                 answer |-> OnMemReadAnswer(addr),
                                 backing |-> Backing(m.mem, addr),
                                 value |-> memReadValue(m.mem, addr)])]

memWrite(m, addr, value) ==
    [m EXCEPT !.mem = memWriteResult(m.mem, addr, value),
              !.bus = Append(@, [kind |-> "memWrite", addr |-> addr,
                                 hooked |-> onMemWrite # "unset",
                                 answer |-> IF OnMemWriteAnswer(addr, value)
                                            THEN 1 ELSE 0,
                                 backing |-> Backing(m.mem, addr),
                                 value |-> value])]

ioRead(m, port) ==
    [m EXCEPT !.val = ioReadValue(port),
              !.bus = Append(@, [kind |-> "ioRead", addr |-> port,
                                 hooked |-> onIoRead # "unset",
                                 answer |-> OnIoReadAnswer(port),
                                 backing |-> 0,
                                 value |-> ioReadValue(port)])]

ioWrite(m, port, value) ==
    [m EXCEPT !.bus = Append(@, [kind |-> "ioWrite", addr |-> port,
                                 hooked |-> onIoWrite # "unset",
                                 answer |-> 0,
                                 backing |-> 0,
                                 value |-> value])]

(***************************************************************************)
(* The Z80 interpreter: the registers the modelled programs use, and the   *)
(* opcodes they are made of.                                               *)
(***************************************************************************)
\* 0xc7, 0xcf, ... 0xff : RST 00h ... RST 38h
RstOpcodes == {199, 207, 215, 223, 231, 239, 247, 255}

Opcodes == {0, 1, 13, 16, 32, 50, 58, 62, 118, 192, 193, 194, 195, 196, 197,
            201, 203, 205, 211, 219, 221, 237, 243, 251, 253}
           \cup RstOpcodes

\* Z80.cycle_counts, restricted to Opcodes
cycle_counts(opcode) ==
    CASE opcode = 0   -> 4      \* 0x00 NOP
      [] opcode = 1   -> 10     \* 0x01 LD BC,nn
      [] opcode = 13  -> 4      \* 0x0d DEC C
      [] opcode = 194 -> 10     \* 0xc2 JP NZ,nn
      [] opcode = 16  -> 8      \* 0x10 DJNZ n
      [] opcode = 32  -> 7      \* 0x20 JR NZ,n
      [] opcode = 192 -> 5      \* 0xc0 RET NZ
      [] opcode = 196 -> 10     \* 0xc4 CALL NZ,nn
      [] opcode = 203 -> 0      \* 0xcb CB prefix
      [] opcode = 221 -> 0      \* 0xdd DD prefix
      [] opcode = 237 -> 0      \* 0xed ED prefix
      [] opcode = 243 -> 4      \* 0xf3 DI
      [] opcode = 251 -> 4      \* 0xfb EI
      [] opcode = 253 -> 0      \* 0xfd FD prefix
      [] opcode = 50  -> 13     \* 0x32 LD (nn),A
      [] opcode = 58  -> 13     \* 0x3a LD A,(nn)
      [] opcode = 62  -> 7      \* 0x3e LD A,n
      [] opcode = 118 -> 4      \* 0x76 HALT
      [] opcode = 193 -> 10     \* 0xc1 POP BC
      [] opcode = 195 -> 10     \* 0xc3 JP nn
      [] opcode = 197 -> 11     \* 0xc5 PUSH BC
      [] opcode = 201 -> 10     \* 0xc9 RET
      [] opcode = 205 -> 17     \* 0xcd CALL nn
      [] opcode = 211 -> 11     \* 0xd3 OUT (n),A
      [] opcode = 219 -> 11     \* 0xdb IN A,(n)
      [] opcode \in RstOpcodes -> 11       \* RST

\* the opcodes Z80.dd_instructions and Z80.ed_instructions have an entry for
dd_instructions ==
    {9, 25, 33, 34, 35, 36, 37, 38, 41, 42, 43, 44, 45, 46, 52, 53, 54, 57,
     68, 69, 70, 76, 77, 78, 84, 85, 86, 92, 93, 94, 203, 225, 227, 229, 233,
     249}
    \cup (96 .. 117) \cup {119, 124, 125, 126}
    \cup {132, 133, 134, 140, 141, 142, 148, 149, 150, 156, 157, 158,
          164, 165, 166, 172, 173, 174, 180, 181, 182, 188, 189, 190}
ed_instructions ==
    (64 .. 118) \cup (120 .. 126) \cup (160 .. 163) \cup (168 .. 171)
    \cup (176 .. 179) \cup (184 .. 187)

\* Z80.cycle_counts_dd and Z80.cycle_counts_ed, for the opcodes modelled
cycle_counts_dd(opcode) ==
    CASE opcode = 9  -> 15      \* 0x09 ADD IX,BC
      [] opcode = 203 -> 0      \* 0xcb CB prefix
      [] opcode = 35 -> 10      \* 0x23 INC IX
cycle_counts_ed(opcode) ==
    CASE opcode = 79  -> 9      \* 0x4f LD R,A
      [] opcode = 66  -> 15     \* 0x42 SBC HL,BC
      [] opcode = 74  -> 15     \* 0x4a ADC HL,BC
      [] opcode = 176 -> 16     \* 0xb0 LDIR

\* Z80.cycle_counts_cb
cycle_counts_cb(opcode) ==
    IF opcode % 8 # 6 THEN 8
    ELSE IF opcode \in 64 .. 127 THEN 12 ELSE 15

\* bit n of x
Bit(x, n) == (x \div (2 ^ n)) % 2

SetPc(m, v) == [m EXCEPT !.cpu.pc = v]
AddCycles(m, n) == [m EXCEPT !.cpu.cycle_counter = @ + n]

push_wordLowFirst(m, operand) ==
    LET sp1 == Word(m.cpu.sp + 65535)
        m1  == memWrite([m EXCEPT !.cpu.sp = sp1], sp1, operand % 256)
        sp2 == Word(sp1 + 65535)
    IN memWrite([m1 EXCEPT !.cpu.sp = sp2], sp2, operand \div 256)

push_word(m, operand) ==
    LET sp1 == Word(m.cpu.sp + 65535)
        m1  == memWrite([m EXCEPT !.cpu.sp = sp1], sp1, operand \div 256)
        sp2 == Word(sp1 + 65535)
    IN memWrite([m1 EXCEPT !.cpu.sp = sp2], sp2, operand % 256)

\* the popped word is left in .val
pop_word(m) ==
    LET m1 == memRead(m, m.cpu.sp)
        lo == m1.val % 256
        m2 == memRead([m1 EXCEPT !.cpu.sp = Word(m.cpu.sp + 1)],
                      Word(m.cpu.sp + 1))
    IN [m2 EXCEPT !.cpu.sp = Word(m.cpu.sp + 2), !.val = lo + m2.val * 256]

\* the 16-bit operand at pc+1, pc+2 (low byte first), left in .val
ReadOperandWord(m) ==
    LET m1 == memRead(m, Word(m.cpu.pc + 1))
        m2 == memRead(m1, Word(m.cpu.pc + 2))
    IN [m2 EXCEPT !.val = m1.val + m2.val * 256]

\* 0x32 : LD (nn), A
LdNnA(m) ==
    LET m1 == memRead(SetPc(m, Word(m.cpu.pc + 1)), Word(m.cpu.pc + 1))
        m2 == memRead(SetPc(m1, Word(m.cpu.pc + 2)), Word(m.cpu.pc + 2))
    IN memWrite(m2, m1.val + m2.val * 256, m.cpu.a)

\* 0x3a : LD A, (nn)
LdANn(m) ==
    LET m1 == memRead(SetPc(m, Word(m.cpu.pc + 1)), Word(m.cpu.pc + 1))
        m2 == memRead(SetPc(m1, Word(m.cpu.pc + 2)), Word(m.cpu.pc + 2))
        m3 == memRead(m2, m1.val + m2.val * 256)
    IN [m3 EXCEPT !.cpu.a = m3.val]

\* 0x3e : LD A, n
LdAN(m) ==
    LET m1 == memRead(m, Word(m.cpu.pc + 1))
    IN [m1 EXCEPT !.cpu.a = m1.val, !.cpu.pc = Word(m.cpu.pc + 1)]

\* 0x76 : HALT
Halt(m) == [m EXCEPT !.cpu.halted = TRUE, !.cpu.iff1 = 1, !.cpu.iff2 = 1]

\* 0xc1 : POP BC
PopBc(m) ==
    LET m1 == pop_word(m)
    IN [m1 EXCEPT !.cpu.c = m1.val % 256, !.cpu.b = (m1.val \div 256) % 256]

\* 0xc3 : JP nn
JpNn(m) ==
    LET m1 == ReadOperandWord(m)
    IN SetPc(m1, Word(m1.val + 65535))

\* 0xc5 : PUSH BC
PushBc(m) == push_word(m, m.cpu.c + m.cpu.b * 256)

\* 0xc9 : RET
Ret(m) ==
    LET m1 == pop_word(m)
    IN SetPc(m1, Word(m1.val + 65535))

\* 0xcd : CALL nn
CallNn(m) ==
    LET m1 == push_word(m, Word(m.cpu.pc + 3))
        m2 == ReadOperandWord(m1)
    IN SetPc(m2, Word(m2.val + 65535))

\* the RST [address] instructions
do_reset(m, address) ==
    SetPc(push_word(m, Word(m.cpu.pc + 1)), Word(address + 65535))

\* 0xc7 ... 0xff : RST, to the address in bits 3 to 5 of the opcode
Rst(m, opcode) == do_reset(m, opcode - 199)

\* 0xd3 : OUT (n), A
OutNA(m) ==
    LET m1 == memRead(SetPc(m, Word(m.cpu.pc + 1)), Word(m.cpu.pc + 1))
    IN ioWrite(m1, m.cpu.a * 256 + m1.val, m.cpu.a)

\* 0xdb : IN A, (n)
InAN(m) ==
    LET m1 == memRead(SetPc(m, Word(m.cpu.pc + 1)), Word(m.cpu.pc + 1))
        m2 == ioRead(m1, m.cpu.a * 256 + m1.val)
    IN [m2 EXCEPT !.cpu.a = m2.val]

IncRWholeByte(r) == (r + 1) % 256

\* the R auto-increment: bit 7 kept, low 7 bits wrap
IncR(r) == ((r \div 128) * 128) + (((r % 128) + 1) % 128)

get_signed_offset_byte(value) ==
    IF (value % 256) >= 128 THEN (value % 256) - 256 ELSE value % 256

do_conditional_relative_jump(m, condition) ==
    IF condition
    THEN LET m1 == memRead(AddCycles(m, 5), Word(m.cpu.pc + 1))
         IN SetPc(m1, Word(m.cpu.pc + get_signed_offset_byte(m1.val) + 1
                           + 65536))
    ELSE SetPc(m, Word(m.cpu.pc + 1))

do_conditional_callFlatCost(m, condition) ==
    IF condition
    THEN LET m1 == push_word(m, Word(m.cpu.pc + 3))
             m2 == ReadOperandWord(m1)
         IN SetPc(m2, Word(m2.val + 65535))
    ELSE SetPc(m, Word(m.cpu.pc + 2))

do_conditional_call(m, condition) ==
    IF condition
    THEN LET m1 == push_word(AddCycles(m, 7), Word(m.cpu.pc + 3))
             m2 == ReadOperandWord(m1)
         IN SetPc(m2, Word(m2.val + 65535))
    ELSE SetPc(m, Word(m.cpu.pc + 2))

do_conditional_return(m, condition) ==
    IF condition
    THEN LET m1 == pop_word(AddCycles(m, 6))
         IN SetPc(m1, Word(m1.val + 65535))
    ELSE m

do_conditional_absolute_jump(m, condition) ==
    IF condition
    THEN LET m1 == ReadOperandWord(m)
         IN SetPc(m1, Word(m1.val + 65535))
    ELSE SetPc(m, Word(m.cpu.pc + 2))

\* the decremented byte is left in .val
do_dec(m, operand) ==
    LET res == operand - 1
    IN [m EXCEPT !.cpu.flags.S = Bit(res, 7),
                 !.cpu.flags.Z = IF res % 256 = 0 THEN 1 ELSE 0,
                 !.cpu.flags.H = IF operand % 16 = 0 THEN 1 ELSE 0,
                 !.cpu.flags.P = IF operand = 128 THEN 1 ELSE 0,
                 !.cpu.flags.N = 1,
                 !.cpu.flags.Y = Bit(res % 256, 5),
                 !.cpu.flags.X = Bit(res % 256, 3),
                 !.val = res % 256]

\* 0x01 : LD BC, nn
LdBcNn(m) ==
    LET m1 == memRead(SetPc(m, Word(m.cpu.pc + 1)), Word(m.cpu.pc + 1))
        m2 == memRead(SetPc(m1, Word(m.cpu.pc + 2)), Word(m.cpu.pc + 2))
    IN [m2 EXCEPT !.cpu.c = m1.val, !.cpu.b = m2.val]

\* 0x0d : DEC C
DecC(m) ==
    LET m1 == do_dec(m, m.cpu.c)
    IN [m1 EXCEPT !.cpu.c = m1.val]

\* 0xc2 : JP NZ, nn
JpNzNn(m) == do_conditional_absolute_jump(m, m.cpu.flags.Z = 0)

DjnzTestingBeforeDecrement(m) ==
    do_conditional_relative_jump([m EXCEPT !.cpu.b = Byte(m.cpu.b + 255)],
                                 m.cpu.b # 0)

\* 0x10 : DJNZ n
Djnz(m) ==
    LET b1 == Byte(m.cpu.b + 255)
    IN do_conditional_relative_jump([m EXCEPT !.cpu.b = b1], b1 # 0)

\* 0x20 : JR NZ, n
JrNz(m) == do_conditional_relative_jump(m, m.cpu.flags.Z = 0)

\* 0xc0 : RET NZ
RetNz(m) == do_conditional_return(m, m.cpu.flags.Z = 0)

\* 0xc4 : CALL NZ, nn
CallNzNn(m) == do_conditional_call(m, m.cpu.flags.Z = 0)

\* 0xf3 : DI and 0xfb : EI
Di(m) == [m EXCEPT !.cpu.do_delayed_di = TRUE]
Ei(m) == [m EXCEPT !.cpu.do_delayed_ei = TRUE]

do_ix_add(m, operand) ==
    LET sum == m.cpu.ix + operand
    IN [m EXCEPT !.cpu.flags.N = 0,
                 !.cpu.flags.C = Bit(sum, 16),
                 !.cpu.flags.H = Bit((m.cpu.ix % 4096) + (operand % 4096), 12),
                 !.cpu.flags.Y = Bit(sum, 13),
                 !.cpu.flags.X = Bit(sum, 11),
                 !.cpu.ix = sum]

\* the flags X and Y as Z80.update_xy_flags sets them
update_xy_flags(flags, value) ==
    [flags EXCEPT !.Y = Bit(value, 5), !.X = Bit(value, 3)]

\* Z80.get_parity: 1 when the number of bits set is even
get_parity(value) ==
    (1 + Bit(value, 0) + Bit(value, 1) + Bit(value, 2) + Bit(value, 3)
       + Bit(value, 4) + Bit(value, 5) + Bit(value, 6) + Bit(value, 7)) % 2

\* what the shifts and rotates leave: the byte they return and the flags
Shifted(flags, carry, operand, sign) ==
    [value |-> operand % 256,
     flags |-> update_xy_flags(
                   [flags EXCEPT !.N = 0, !.H = 0, !.C = carry,
                                 !.Z = IF operand % 256 = 0 THEN 1 ELSE 0,
                                 !.P = get_parity(operand),
                                 !.S = sign],
                   operand)]

do_rlc(flags, operand) ==
    LET carry == Bit(operand, 7)
        res   == ((operand * 2) % 256) + carry
    IN Shifted(flags, carry, res, Bit(res, 7))

do_rrc(flags, operand) ==
    LET carry == operand % 2
        res   == ((operand \div 2) % 128) + carry * 128
    IN Shifted(flags, carry, res, Bit(res, 7))

do_rl(flags, operand) ==
    LET res == ((operand * 2) % 256) + flags.C
    IN Shifted(flags, Bit(operand, 7), res, Bit(res, 7))

do_rr(flags, operand) ==
    LET res == ((operand \div 2) % 128) + flags.C * 128
    IN Shifted(flags, operand % 2, res, Bit(res, 7))

do_sla(flags, operand) ==
    LET res == (operand * 2) % 256
    IN Shifted(flags, Bit(operand, 7), res, Bit(res, 7))

do_sra(flags, operand) ==
    LET res == ((operand \div 2) % 128) + Bit(operand, 7) * 128
    IN Shifted(flags, operand % 2, res, Bit(res, 7))

do_sll(flags, operand) ==
    LET res == ((operand * 2) % 256) + 1
    IN Shifted(flags, Bit(operand, 7), res, Bit(res, 7))

do_srl(flags, operand) ==
    LET res == (operand \div 2) % 128
    IN Shifted(flags, operand % 2, res, 0)

\* ddcb_functions[index].call(this, operand)
ddcb_functions(index, flags, operand) ==
    CASE index = 0 -> do_rlc(flags, operand)
      [] index = 1 -> do_rrc(flags, operand)
      [] index = 2 -> do_rl(flags, operand)
      [] index = 3 -> do_rr(flags, operand)
      [] index = 4 -> do_sla(flags, operand)
      [] index = 5 -> do_sra(flags, operand)
      [] index = 6 -> do_sll(flags, operand)
      [] index = 7 -> do_srl(flags, operand)

\* the register the low three bits of a CB sub-opcode select
SelectedRegister(opcode) ==
    <<"b", "c", "d", "e", "h", "l", "none", "a">>[(opcode % 8) + 1]

BitFlagsSignFromAnyBit(flags, operand, bit_number) ==
    LET z == 1 - Bit(operand, bit_number)
    IN [flags EXCEPT !.Z = z, !.N = 0, !.H = 1, !.P = z, !.S = 1 - z,
                     !.Y = IF bit_number = 5 /\ z = 0 THEN 1 ELSE 0,
                     !.X = IF bit_number = 3 /\ z = 0 THEN 1 ELSE 0]

\* the flags the BIT instructions of the CB prefix leave
BitFlags(flags, operand, bit_number) ==
    LET z == 1 - Bit(operand, bit_number)
    IN [flags EXCEPT !.Z = z, !.N = 0, !.H = 1, !.P = z,
                     !.S = IF bit_number = 7 /\ z = 0 THEN 1 ELSE 0,
                     !.Y = IF bit_number = 5 /\ z = 0 THEN 1 ELSE 0,
                     !.X = IF bit_number = 3 /\ z = 0 THEN 1 ELSE 0]

\* 0xcb : CB prefix; op_array is the array ddcb_functions
CbPrefix(m) ==
    LET m1 == memRead([m EXCEPT !.cpu.r = IncR(@),
                                !.cpu.pc = Word(m.cpu.pc + 1)],
                      Word(m.cpu.pc + 1))
        opcode     == m1.val
        bit_number == (opcode \div 8) % 8
        reg_code   == opcode % 8
        hl         == m1.cpu.l + m1.cpu.h * 256
        m2         == IF reg_code = 6 THEN memRead(m1, hl) ELSE m1
        operand    == IF reg_code = 6 THEN m2.val
                      ELSE m1.cpu[SelectedRegister(opcode)]
        Put(mm, value) ==
            IF reg_code = 6 THEN memWrite(mm, hl, value)
            ELSE [mm EXCEPT !.cpu[SelectedRegister(opcode)] = value]
        done ==
            IF opcode < 64
            THEN LET sh == ddcb_functions(bit_number, m2.cpu.flags, operand)
                 IN Put([m2 EXCEPT !.cpu.flags = sh.flags], sh.value)
            ELSE IF opcode < 128
            THEN [m2 EXCEPT !.cpu.flags = BitFlags(@, operand, bit_number)]
            ELSE IF opcode < 192
            THEN Put(m2, operand
                         - Bit(operand, bit_number) * (2 ^ bit_number))
            ELSE Put(m2, operand
                         + (1 - Bit(operand, bit_number)) * (2 ^ bit_number))
    IN AddCycles(done, cycle_counts_cb(opcode))

MirrorRegisterNever(cpu, opcode, value) == cpu

\* the undocumented copy of the result into an 8080 register
MirrorRegister(cpu, opcode, value) ==
    IF value = Undefined THEN cpu
    ELSE CASE opcode % 8 = 0 -> [cpu EXCEPT !.b = value]
           [] opcode % 8 = 1 -> [cpu EXCEPT !.c = value]
           [] opcode % 8 = 2 -> [cpu EXCEPT !.d = value]
           [] opcode % 8 = 3 -> [cpu EXCEPT !.e = value]
           [] opcode % 8 = 4 -> [cpu EXCEPT !.h = value]
           [] opcode % 8 = 5 -> [cpu EXCEPT !.l = value]
           [] opcode % 8 = 6 -> cpu
           [] opcode % 8 = 7 -> [cpu EXCEPT !.a = value]

\* DD 0xcb : CB prefix (IX bit instructions); .val is the byte the
\* instruction produced, Undefined for BIT
DdCb(m) ==
    LET m1 == memRead(SetPc(m, Word(m.cpu.pc + 1)), Word(m.cpu.pc + 1))
        offset == get_signed_offset_byte(m1.val)
        m2 == memRead(SetPc(m1, Word(m.cpu.pc + 2)), Word(m.cpu.pc + 2))
        opcode == m2.val
        addr == Word(m.cpu.ix + offset + 65536)
        m3 == memRead(m2, addr)
        bit_number == (opcode \div 8) % 8
        done ==
            IF opcode < 64
            THEN LET sh == ddcb_functions(bit_number, m3.cpu.flags, m3.val)
                 IN [memWrite([m3 EXCEPT !.cpu.flags = sh.flags], addr,
                              sh.value) EXCEPT !.val = sh.value]
            ELSE IF opcode < 128
            THEN LET z == 1 - Bit(m3.val, bit_number)
                 IN [m3 EXCEPT !.cpu.flags.N = 0, !.cpu.flags.H = 1,
                               !.cpu.flags.Z = z, !.cpu.flags.P = z,
                               !.cpu.flags.S =
                                   IF bit_number = 7 /\ z = 0 THEN 1 ELSE 0,
                               !.val = Undefined]
            ELSE IF opcode < 192
            THEN LET res == m3.val - Bit(m3.val, bit_number) * (2 ^ bit_number)
                 IN [memWrite(m3, addr, res) EXCEPT !.val = res]
            ELSE LET res == m3.val
                            + (1 - Bit(m3.val, bit_number)) * (2 ^ bit_number)
                 IN [memWrite(m3, addr, res) EXCEPT !.val = res]
    IN AddCycles([done EXCEPT !.cpu = MirrorRegister(@, opcode, done.val)],
                 cycle_counts_cb(opcode) + 8)

\* Z80.dd_instructions[opcode]()
DdInstruction(m, opcode) ==
    CASE opcode = 9  -> do_ix_add(m, m.cpu.c + m.cpu.b * 256)
      [] opcode = 203 -> DdCb(m)
      [] opcode = 35 -> [m EXCEPT !.cpu.ix = Word(m.cpu.ix + 1)]

\* 0xdd : DD prefix
DdPrefix(m) ==
    LET m1 == memRead([m EXCEPT !.cpu.r = IncR(@),
                                !.cpu.pc = Word(m.cpu.pc + 1)],
                      Word(m.cpu.pc + 1))
    IN IF m1.val \in dd_instructions
       THEN AddCycles(DdInstruction(m1, m1.val), cycle_counts_dd(m1.val))
       ELSE AddCycles(SetPc(m1, Word(m1.cpu.pc + 65535)), cycle_counts(0))

\* 0xfd : FD prefix
FdPrefix(m) ==
    LET m1 == memRead([m EXCEPT !.cpu.r = IncR(@),
                                !.cpu.pc = Word(m.cpu.pc + 1)],
                      Word(m.cpu.pc + 1))
    IN IF m1.val \in dd_instructions
       THEN LET temp == m1.cpu.ix
                m2 == DdInstruction([m1 EXCEPT !.cpu.ix = m1.cpu.iy], m1.val)
            IN AddCycles([m2 EXCEPT !.cpu.iy = m2.cpu.ix, !.cpu.ix = temp],
                         cycle_counts_dd(m1.val))
       ELSE AddCycles(SetPc(m1, Word(m1.cpu.pc + 65535)), cycle_counts(0))

do_ldi(m) ==
    LET m1 == memRead(m, m.cpu.l + m.cpu.h * 256)
        read_value == m1.val
        m2 == memWrite(m1, m.cpu.e + m.cpu.d * 256, read_value)
        de == m.cpu.e + m.cpu.d * 256 + 1
        hl == m.cpu.l + m.cpu.h * 256 + 1
        bc == m.cpu.c + m.cpu.b * 256 + 65535
    IN [m2 EXCEPT !.cpu.e = de % 256, !.cpu.d = (de \div 256) % 256,
                  !.cpu.l = hl % 256, !.cpu.h = (hl \div 256) % 256,
                  !.cpu.c = bc % 256, !.cpu.b = (bc \div 256) % 256,
                  !.cpu.flags.H = 0,
                  !.cpu.flags.P = IF Word(bc) # 0 THEN 1 ELSE 0,
                  !.cpu.flags.N = 0,
                  !.cpu.flags.Y = Bit(m.cpu.a + read_value, 1),
                  !.cpu.flags.X = Bit(m.cpu.a + read_value, 3)]

LdirTestingLowCountOnly(m) ==
    LET m1 == do_ldi(m)
    IN IF m1.cpu.c # 0
       THEN SetPc(AddCycles(m1, 5), Word(m1.cpu.pc + 65534))
       ELSE m1

\* ED 0xb0 : LDIR
Ldir(m) ==
    LET m1 == do_ldi(m)
    IN IF m1.cpu.b # 0 \/ m1.cpu.c # 0
       THEN SetPc(AddCycles(m1, 5), Word(m1.cpu.pc + 65534))
       ELSE m1

do_hl_adc(m, operand) ==
    LET op  == operand + m.cpu.flags.C
        hl  == m.cpu.l + m.cpu.h * 256
        sum == hl + op
        h1  == (sum \div 256) % 256
        f   == [m.cpu.flags EXCEPT
                   !.S = Bit(sum, 15),
                   !.Z = IF sum % 65536 = 0 THEN 1 ELSE 0,
                   !.H = Bit((hl % 4096) + (op % 4096), 12),
                   !.P = IF Bit(hl, 15) = Bit(op, 15)
                            /\ Bit(sum, 15) # Bit(hl, 15) THEN 1 ELSE 0,
                   !.N = 0,
                   !.C = Bit(sum, 16)]
    IN [m EXCEPT !.cpu.flags = update_xy_flags(f, h1),
                 !.cpu.l = sum % 256, !.cpu.h = h1]

\* the difference may be negative: the bits are those of its two's
\* complement, which \div and % give as they round down
do_hl_sbc(m, operand) ==
    LET op   == operand + m.cpu.flags.C
        hl   == m.cpu.l + m.cpu.h * 256
        diff == hl - op
        h1   == (diff \div 256) % 256
        f    == [m.cpu.flags EXCEPT
                    !.S = Bit(diff, 15),
                    !.Z = IF diff % 65536 = 0 THEN 1 ELSE 0,
                    !.H = Bit((hl % 4096) - (op % 4096), 12),
                    !.P = IF Bit(hl, 15) # Bit(op, 15)
                             /\ Bit(diff, 15) # Bit(hl, 15) THEN 1 ELSE 0,
                    !.N = 1,
                    !.C = Bit(diff, 16)]
    IN [m EXCEPT !.cpu.flags = update_xy_flags(f, h1),
                 !.cpu.l = diff % 256, !.cpu.h = h1]

\* Z80.ed_instructions[opcode]()
EdInstruction(m, opcode) ==
    CASE opcode = 79  -> [m EXCEPT !.cpu.r = m.cpu.a]
      [] opcode = 66  -> do_hl_sbc(m, m.cpu.c + m.cpu.b * 256)
      [] opcode = 74  -> do_hl_adc(m, m.cpu.c + m.cpu.b * 256)
      [] opcode = 176 -> Ldir(m)

\* 0xed : ED prefix
EdPrefix(m) ==
    LET m1 == memRead([m EXCEPT !.cpu.r = IncR(@),
                                !.cpu.pc = Word(m.cpu.pc + 1)],
                      Word(m.cpu.pc + 1))
    IN IF m1.val \in ed_instructions
       THEN AddCycles(EdInstruction(m1, m1.val), cycle_counts_ed(m1.val))
       ELSE AddCycles(m1, cycle_counts(0))

\* Z80.instructions[opcode](), for the opcodes of Opcodes
Instruction(m, opcode) ==
    CASE opcode = 0   -> m
      [] opcode = 1   -> LdBcNn(m)
      [] opcode = 13  -> DecC(m)
      [] opcode = 194 -> JpNzNn(m)
      [] opcode = 16  -> Djnz(m)
      [] opcode = 32  -> JrNz(m)
      [] opcode = 192 -> RetNz(m)
      [] opcode = 196 -> CallNzNn(m)
      [] opcode = 203 -> CbPrefix(m)
      [] opcode = 221 -> DdPrefix(m)
      [] opcode = 237 -> EdPrefix(m)
      [] opcode = 243 -> Di(m)
      [] opcode = 251 -> Ei(m)
      [] opcode = 253 -> FdPrefix(m)
      [] opcode = 50  -> LdNnA(m)
      [] opcode = 58  -> LdANn(m)
      [] opcode = 62  -> LdAN(m)
      [] opcode = 118 -> Halt(m)
      [] opcode = 193 -> PopBc(m)
      [] opcode = 195 -> JpNn(m)
      [] opcode = 197 -> PushBc(m)
      [] opcode = 201 -> Ret(m)
      [] opcode = 205 -> CallNn(m)
      [] opcode = 211 -> OutNA(m)
      [] opcode = 219 -> InAN(m)
      [] opcode \in RstOpcodes -> Rst(m, opcode)

\* Z80.decode_instruction: the instruction, then its base cycles
decode_instruction(m, opcode) ==
    AddCycles(Instruction(m, opcode), cycle_counts(opcode))

\* the opcode run_instruction fetches in machine state m
FetchedOpcode(m) == memReadValue(m.mem, m.cpu.pc)

\* Z80.run_instruction, the branch taken when not halted, up to
\* "var retval = this.cycle_counter"
RunOneInstruction(m) ==
    LET doing_delayed_di == m.cpu.do_delayed_di
        doing_delayed_ei == ~m.cpu.do_delayed_di /\ m.cpu.do_delayed_ei
        m0 == memRead([m EXCEPT
                          !.cpu.do_delayed_di =
                              IF doing_delayed_di THEN FALSE ELSE @,
                          !.cpu.do_delayed_ei =
                              IF doing_delayed_ei THEN FALSE ELSE @,
                          !.cpu.r = IncR(m.cpu.r)],
                      m.cpu.pc)
        Decoded(fetched) == decode_instruction(fetched, fetched.val)
        Advanced(m1) == SetPc(m1, Word(m1.cpu.pc + 1))
        Committed(m2) ==
            IF doing_delayed_di
            THEN [m2 EXCEPT !.cpu.iff1 = 0, !.cpu.iff2 = 0]
            ELSE IF doing_delayed_ei
            THEN [m2 EXCEPT !.cpu.iff1 = 1, !.cpu.iff2 = 1]
            ELSE m2
    IN Committed(Advanced(Decoded(m0)))

run_instructionWhileHalted(m) ==
    [RunOneInstruction(m) EXCEPT !.cpu.cycle_counter = 0]

\* Z80.run_instruction: the machine state afterwards
run_instruction(m) ==
    IF ~m.cpu.halted
    THEN [RunOneInstruction(m) EXCEPT !.cpu.cycle_counter = 0]
    ELSE m

\* Z80.run_instruction: the T-states returned
run_instruction_cycles(m) ==
    IF ~m.cpu.halted THEN RunOneInstruction(m).cpu.cycle_counter ELSE 1

\* what a call on the Z80 leaves behind: the machine state, and whether the
\* call ended by raising an exception
Returned(m) == [m |-> m, threw |-> FALSE]
Raised(m)   == [m |-> m, threw |-> TRUE]

NonMaskableInterruptKeepingIff2(m) ==
    LET m1 == [m EXCEPT !.cpu.r = IncR(@), !.cpu.halted = FALSE,
                        !.cpu.iff1 = 0]
    IN AddCycles(SetPc(push_word(m1, m.cpu.pc), 102), 11)

\* Z80.interrupt, non_maskable
NonMaskableInterrupt(m) ==
    LET m1 == [m EXCEPT !.cpu.r = IncR(@), !.cpu.halted = FALSE,
                        !.cpu.iff2 = m.cpu.iff1, !.cpu.iff1 = 0]
    IN AddCycles(SetPc(push_word(m1, m.cpu.pc), 102), 11)

\* Z80.interrupt, maskable and accepted.  In mode 2 the vector is read with
\* this.core.read_mem_byte, which is not one of the four functions of the
\* core: the call is a TypeError, raised after the PC has been pushed.
MaskableInterrupt(m, data) ==
    LET m1 == [m EXCEPT !.cpu.r = IncR(@), !.cpu.halted = FALSE,
                        !.cpu.iff1 = 0, !.cpu.iff2 = 0]
    IN CASE m.cpu.imode = 0 ->
              Returned(AddCycles(decode_instruction(m1, data), 2))
         [] m.cpu.imode = 1 ->
              Returned(AddCycles(SetPc(push_word(m1, m.cpu.pc), 56), 13))
         [] m.cpu.imode = 2 -> Raised(push_word(m1, m.cpu.pc))
         [] OTHER -> Returned(m1)

\* Z80.interrupt
interrupt(m, non_maskable, data) ==
    IF non_maskable THEN Returned(NonMaskableInterrupt(m))
    ELSE IF m.cpu.iff1 # 0 THEN MaskableInterrupt(m, data)
    ELSE Returned(m)

\* the tag the instruction leaves in last_instruction
InstructionTag(opcode) ==
    CASE opcode = 201           -> "RET"
      [] opcode = 205           -> "CALL"
      [] opcode \in RstOpcodes  -> "RST"
      [] OTHER                  -> "NONE"

\* the tag after interrupt(non_maskable, data): every accepted interrupt
\* leaves INT
InterruptTag(cpu, non_maskable, tag) ==
    IF non_maskable \/ cpu.iff1 # 0 THEN "INT" ELSE tag

(***************************************************************************)
(* The step-mock chain (StepMock) and its observers.                       *)
(***************************************************************************)
\* enum StepResponse { RUN, BREAK, SKIP }: RUN is 0, the others are not
Truthy(response) == response # "RUN"

\* A chain is evaluated on a step context e: the machine state [cpu, mem,
\* bus, val] together with the last-instruction tag (last), the number of
\* user callbacks the fake-call observers have invoked (calls), the observers
\* consulted so far with their answers (trace) and the answer of the
\* observer consulted last (resp).
Context(cpu, mem, last) ==
    [cpu |-> cpu, mem |-> mem, bus |-> <<>>, val |-> 0, last |-> last,
     calls |-> 0, trace |-> <<>>, resp |-> "RUN"]

Answer(e, response) == [e EXCEPT !.resp = response]

CallTagsAndNone == {"CALL", "INT", "RST", "NONE"}

\* the instruction tags that stand for a subroutine call
CallTags == {"CALL", "INT", "RST"}

FakeCallOnStepKeepingFrame(e, mock) ==
    IF e.cpu.pc = mock.addr /\ e.last \in CallTags
    THEN [e EXCEPT !.last = "RET", !.calls = @ + 1, !.resp = "SKIP"]
    ELSE Answer(e, "RUN")

\* FakeCallStepMock.onStep
FakeCallOnStep(e, mock) ==
    IF e.cpu.pc = mock.addr /\ e.last \in CallTags
    THEN LET m1 == pop_word(e)
         IN [m1 EXCEPT !.cpu.pc = m1.val, !.last = "RET",
                       !.calls = @ + 1, !.resp = "SKIP"]
    ELSE Answer(e, "RUN")

\* AbstractStepMock.onStep of each observer kind
MockOnStep(mock, e) ==
    CASE mock.kind = "Breakpoint" ->
             Answer(e, IF e.cpu.pc = mock.addr THEN "BREAK" ELSE "RUN")
      [] mock.kind = "FakeCall"   -> FakeCallOnStep(e, mock)
      [] mock.kind = "OnStep"     ->
             Answer(e, IF e.cpu.pc = mock.addr THEN mock.resp ELSE "RUN")
      [] mock.kind = "OnAllSteps" -> Answer(e, mock.resp)
      [] mock.kind = "Logger"     -> Answer(e, "RUN")

\* the observer and its answer, as recorded in the trace
Consulted(mock, e) ==
    [e EXCEPT !.trace = Append(@, [id |-> mock.id, kind |-> mock.kind,
                                   resp |-> e.resp])]

RECURSIVE StepMockOnStepLastWins(_, _)
StepMockOnStepLastWins(mocks, e) ==
    IF mocks = <<>> THEN e
    ELSE LET r == Consulted(Head(mocks), MockOnStep(Head(mocks), e))
             rest == StepMockOnStepLastWins(Tail(mocks), r)
         IN IF rest.resp # "RUN" THEN rest ELSE Answer(rest, r.resp)

\* StepMock.onStep / the closure StepMock.mock() returns
RECURSIVE StepMockOnStep(_, _)
StepMockOnStep(mocks, e) ==
    IF mocks = <<>> THEN Answer(e, "RUN")
    ELSE LET r == Consulted(Head(mocks), MockOnStep(Head(mocks), e))
         IN IF r.resp # "RUN" THEN r ELSE StepMockOnStep(Tail(mocks), r)

(***************************************************************************)
(* Zat: load, getAddress, call, run.                                       *)
(***************************************************************************)
\* Zat.getAddress for a numeric argument
getAddress(addr) == addr

\* An argument typed number | string | undefined.  A string is held as the
\* sequence of its character codes, so that toUpperCase can be computed.
Num(n)    == [type |-> "number", num |-> n, str |-> <<>>]
Str(name) == [type |-> "string", num |-> 0, str |-> name]
NoArg     == [type |-> "undefined", num |-> Undefined, str |-> <<>>]

\* String.prototype.toUpperCase
UpperCode(c) == IF c >= 97 /\ c <= 122 THEN c - 32 ELSE c
toUpperCase(name) == [i \in 1..Len(name) |-> UpperCode(name[i])]

\* this.symbols = {} and this.symbols[key]
EmptyTable == [k \in {} |-> 0]
SymbolAt(table, key) == IF key \in DOMAIN table THEN table[key] ELSE Undefined

\* Zat.getAddress for an argument of either type
getAddressOf(table, addr) ==
    IF addr.type = "string" THEN SymbolAt(table, toUpperCase(addr.str))
    ELSE getAddress(addr.num)

\* loadProg(): for (const symbol in prog.symbols) this.symbols[symbol] = ...
MergeSymbols(table, progSymbols) ==
    [k \in (DOMAIN table) \cup (DOMAIN progSymbols) |->
        IF k \in DOMAIN progSymbols THEN progSymbols[k] ELSE table[k]]

\* Buffer.subarray(begin): begin undefined is 0, begin is clamped to length
subarray(data, begin) ==
    IF begin = Undefined THEN data
    ELSE SubSeq(data, (IF begin < Len(data) THEN begin ELSE Len(data)) + 1,
                Len(data))

\* Zat.load(mem, start = 0) for a byte array: the default applies to an
\* undefined start, and Uint8Array.set takes an undefined offset as 0
load(mem, table, bytes, start) ==
    LET offset == getAddressOf(table, IF start.type = "undefined" THEN Num(0)
                                      ELSE start)
    IN SetBytes(mem, bytes, IF offset = Undefined THEN 0 ELSE offset)

loadProgAtZero(mem, table, prog, start) ==
    LET merged == MergeSymbols(table, prog.symbols)
    IN [symbols |-> merged,
        memory  |-> IF start.type # "undefined"
                    THEN load(mem, merged,
                              subarray(prog.data, getAddressOf(merged, start)),
                              NoArg)
                    ELSE load(mem, merged, prog.data, NoArg)]

\* Zat.loadProg
loadProg(mem, table, prog, start) ==
    LET merged == MergeSymbols(table, prog.symbols)
    IN [symbols |-> merged,
        memory  |-> IF start.type # "undefined"
                    THEN LET s == getAddressOf(merged, start)
                         IN load(mem, merged, subarray(prog.data, s),
                                 IF s = Undefined THEN NoArg ELSE Num(s))
                    ELSE load(mem, merged, prog.data, NoArg)]

\* run(): let steps
ResolveSteps(stepsOpt) ==
    IF stepsOpt # Undefined THEN stepsOpt ELSE DefaultSteps

\* run(): let breakAt
ResolveBreakAt(breakAtOpt) ==
    IF breakAtOpt # Undefined THEN getAddress(breakAtOpt) ELSE Undefined

EntryCpuKeepingHalted(cpu, start) ==
    [cpu EXCEPT !.pc = IF start # Undefined THEN getAddress(start) ELSE @]

\* run(): the registers when the loop is entered
EntryCpu(cpu, start) ==
    [cpu EXCEPT !.pc = IF start # Undefined THEN getAddress(start) ELSE @,
                !.halted = FALSE]

NoRun == <<0, 0>>

\* the onStep hook has not been called
NoHookEval == [consulted |-> FALSE, trace |-> <<>>, resp |-> "RUN"]

\* Zat.run up to the while loop, entered with registers cpu
RunSetup(cpu, start, stepsOpt, breakAtOpt, callFlag, spOpt) ==
    /\ phase # "running"
    /\ runs < MaxRuns
    /\ startSp' = cpu.sp
    /\ z80' = EntryCpu(cpu, start)
    /\ steps' = ResolveSteps(stepsOpt)
    /\ breakAt' = ResolveBreakAt(breakAtOpt)
    /\ callOpt' = callFlag
    /\ callSp' = spOpt
    /\ count' = 0
    /\ tStates' = 0
    /\ iterations' = 0
    /\ phase' = "running"
    /\ runs' = runs + 1
    /\ result' = NoRun
    /\ stopReason' = "none"
    /\ staleHalted' = cpu.halted
    /\ hookEval' = NoHookEval
    /\ UNCHANGED <<memory, onMemRead, onMemWrite, onIoRead, onIoWrite, onStep,
                   lastInstruction, bus, loads, mockCalls, callSite>>
    /\ UNCHANGED spyVars
    /\ UNCHANGED snapVars
    /\ UNCHANGED cpuVars
    /\ UNCHANGED bellVars

\* Zat.run called with a start and a breakpoint that are numbers or absent
RunEnter(cpu, start, stepsOpt, breakAtOpt, callFlag, spOpt) ==
    /\ RunSetup(cpu, start, stepsOpt, breakAtOpt, callFlag, spOpt)
    /\ UNCHANGED progVars

\* the conjuncts of run()'s while condition, in order
NotHalted == ~z80.halted

WithinStepsInclusive == count <= steps

WithinSteps == count < steps

NotAtBreakExceptAtStart == count = 0 \/ z80.pc # breakAt

NotAtBreak == z80.pc # breakAt

\* this.onStep(this.z80.pc): the step context after the chain has run
HookResult ==
    StepMockOnStep(onStep.mocks, Context(z80, memory, lastInstruction))

StepHookRuns == ~(onStep.set /\ Truthy(HookResult.resp))

NotReturned == ~(callOpt /\ z80.sp = startSp + 2)

LoopCondition ==
    NotHalted /\ WithinSteps /\ NotAtBreak /\ StepHookRuns /\ NotReturned

\* the first conjunct that is false
StopReason ==
    CASE ~NotHalted    -> "halted"
      [] ~WithinSteps  -> "steps"
      [] ~NotAtBreak   -> "breakAt"
      [] ~StepHookRuns -> "onStep"
      [] OTHER         -> "callReturn"

\* the while condition gets as far as calling the onStep hook
HookCalled == NotHalted /\ WithinSteps /\ NotAtBreak /\ onStep.set

\* what the evaluation of the while condition leaves behind
HookEvalAfter ==
    IF HookCalled
    THEN [consulted |-> TRUE, trace |-> HookResult.trace,
          resp |-> HookResult.resp]
    ELSE NoHookEval

CountAfterStuck(c) == c

\* run(): count++ at the end of the loop body
CountAfter(c) == c + 1

(***************************************************************************)
(* Inputs of the model.                                                    *)
(***************************************************************************)
\*  0: 3E 12     LD A,0x12         12: D3 07     OUT (7),A
\*  2: 32 40 00  LD (0x0040),A     14: C5        PUSH BC
\*  5: 3E 13     LD A,0x13         15: 3A 40 00  LD A,(0x0040)
\*  7: 76        HALT              18: C3 0A 00  JP 10
\*  8: C9        RET               21: CD 08 00  CALL 8
\*  9: C1        POP BC            24: 76        HALT
\* 10: DB 06     IN A,(6)
Program ==
    <<62, 18, 50, 64, 0, 62, 19, 118, 201, 193, 219, 6, 211, 7, 197,
      58, 64, 0, 195, 10, 0, 205, 8, 0, 118, 207>>

Images == { [bytes |-> Program, start |-> 0] }

StartChoices   == {Undefined, 0, 5, 8, 9}
BreakAtChoices == {Undefined, 5}
StepsChoices   == {Undefined} \cup (0 .. MaxSteps)
SpChoices      == {65534}

NoStepHook == [set |-> FALSE, mocks |-> <<>>]

SkipAllChain ==
    <<[id |-> 1, kind |-> "OnAllSteps", addr |-> 0, resp |-> "SKIP"]>>

MixedChain ==
    <<[id |-> 1, kind |-> "OnAllSteps", addr |-> 0, resp |-> "RUN"],
      [id |-> 2, kind |-> "OnStep", addr |-> 5, resp |-> "BREAK"],
      [id |-> 3, kind |-> "OnStep", addr |-> 5, resp |-> "SKIP"]>>

\* a step mock: its place in the order of registration, its kind, the address
\* it watches and the answer of its user callback
Mock(id, kind, addr, resp) ==
    [id |-> id, kind |-> kind, addr |-> addr, resp |-> resp]

\* the chains new StepMock(zat).setFakeCall(...)... builds, in the order of
\* the set... calls; address 8 is the routine CALL 8 and RST 08h call,
\* address 10 is reached by JP 10 and by falling through from 9
MockChains ==
    { <<Mock(1, "FakeCall", 8, "SKIP")>>,
      <<Mock(1, "FakeCall", 10, "SKIP")>>,
      <<Mock(1, "Breakpoint", 8, "BREAK"), Mock(2, "FakeCall", 8, "SKIP")>>,
      <<Mock(1, "FakeCall", 8, "SKIP"), Mock(2, "Breakpoint", 8, "BREAK")>>,
      <<Mock(1, "OnAllSteps", 0, "RUN"), Mock(2, "FakeCall", 8, "SKIP")>>,
      <<Mock(1, "Logger", 0, "RUN"), Mock(2, "OnStep", 8, "SKIP"),
        Mock(3, "FakeCall", 8, "SKIP"), Mock(4, "OnAllSteps", 0, "RUN")>> }

\* the runs of the step-mock scenarios all name their start address
MockStartChoices == {8, 9, 10, 18, 21, 25}
MockStepsChoices == {Undefined, 1}

\* the hook set-ups of the tests: logging hooks that answer "not handled",
\* a read hook shadowing some cells with a write hook protecting others,
\* and step-mock chains
HookFixtures ==
    { [onMemRead |-> "undefined", onMemWrite |-> "unset", onIoRead |-> "zero",
       onIoWrite |-> "log", onStep |-> NoStepHook],
      [onMemRead |-> "shadow", onMemWrite |-> "guard", onIoRead |-> "unset",
       onIoWrite |-> "unset", onStep |-> NoStepHook],
      [onMemRead |-> "unset", onMemWrite |-> "suppress", onIoRead |-> "unset",
       onIoWrite |-> "unset", onStep |-> [set |-> TRUE, mocks |-> SkipAllChain]],
      [onMemRead |-> "unset", onMemWrite |-> "allow", onIoRead |-> "unset",
       onIoWrite |-> "unset", onStep |-> [set |-> TRUE, mocks |-> MixedChain]] }

(***************************************************************************)
(* The harness.                                                            *)
(***************************************************************************)

NoFlags == [S |-> 0, Z |-> 0, Y |-> 0, H |-> 0, X |-> 0, P |-> 0, N |-> 0,
            C |-> 0]

\* the Z80 after its constructor: reset(), the other registers zero
ResetCpu ==
    [a |-> 0, b |-> 0, c |-> 0, d |-> 0, e |-> 0, h |-> 0, l |-> 0,
     flags |-> NoFlags, ix |-> 0, iy |-> 0, i |-> 0, r |-> 0,
     sp |-> 57328, pc |-> 0, imode |-> 0, iff1 |-> 0, iff2 |-> 0,
     halted |-> FALSE, do_delayed_di |-> FALSE, do_delayed_ei |-> FALSE,
     cycle_counter |-> 0]

\* Z80.reset: the registers with a predictable state after a reset; the
\* others are left alone
reset(cpu) ==
    [cpu EXCEPT !.sp = 57328, !.pc = 0, !.a = 0, !.r = 0, !.flags = NoFlags,
                !.imode = 0, !.iff1 = 0, !.iff2 = 0, !.halted = FALSE,
                !.do_delayed_di = FALSE, !.do_delayed_ei = FALSE,
                !.cycle_counter = 0]

InitHarness ==
    /\ z80 = ResetCpu
    /\ memory = <<>>
    /\ onMemRead = "unset"
    /\ onMemWrite = "unset"
    /\ onIoRead = "unset"
    /\ onIoWrite = "unset"
    /\ onStep = NoStepHook
    /\ phase = "idle"
    /\ startSp = 0
    /\ steps = 0
    /\ breakAt = Undefined
    /\ callOpt = FALSE
    /\ callSp = Undefined
    /\ count = 0
    /\ tStates = 0
    /\ result = NoRun
    /\ stopReason = "none"
    /\ lastInstruction = "NONE"
    /\ bus = <<>>
    /\ runs = 0
    /\ loads = 0
    /\ iterations = 0
    /\ staleHalted = FALSE
    /\ hookEval = NoHookEval
    /\ mockCalls = 0
    /\ callSite = [pc |-> 0, sp |-> 0, target |-> 0]

\* Zat.load(mem, start)
Load ==
    /\ phase # "running"
    /\ loads < MaxLoads
    /\ \E image \in Images :
          memory' = SetBytes(memory, image.bytes, getAddress(image.start))
    /\ loads' = loads + 1
    /\ UNCHANGED <<z80, onMemRead, onMemWrite, onIoRead, onIoWrite, onStep,
                   phase, startSp, steps, breakAt, callOpt, count, tStates,
                   result, stopReason, lastInstruction, bus, runs, iterations,
                   staleHalted, callSp, hookEval, mockCalls, callSite>>
    /\ UNCHANGED spyVars
    /\ UNCHANGED progVars
    /\ UNCHANGED snapVars
    /\ UNCHANGED cpuVars
    /\ UNCHANGED bellVars

\* the test's set-up assigns zat.onMemRead, zat.onMemWrite, zat.onIoRead,
\* zat.onIoWrite and zat.onStep
SetHooks ==
    /\ phase = "idle"
    /\ onMemRead = "unset" /\ onMemWrite = "unset" /\ onIoRead = "unset"
    /\ onIoWrite = "unset" /\ ~onStep.set
    /\ \E fixture \in HookFixtures :
          /\ onMemRead' = fixture.onMemRead
          /\ onMemWrite' = fixture.onMemWrite
          /\ onIoRead' = fixture.onIoRead
          /\ onIoWrite' = fixture.onIoWrite
          /\ onStep' = fixture.onStep
    /\ UNCHANGED <<z80, memory, phase, startSp, steps, breakAt, callOpt, count,
                   tStates, result, stopReason, lastInstruction, bus, runs,
                   loads, iterations, staleHalted, callSp, hookEval, mockCalls,
                   callSite>>
    /\ UNCHANGED spyVars
    /\ UNCHANGED progVars
    /\ UNCHANGED snapVars
    /\ UNCHANGED cpuVars
    /\ UNCHANGED bellVars

\* Zat.run(start, runOptions)
Run ==
    \E start \in StartChoices, stepsOpt \in StepsChoices,
       breakAtOpt \in BreakAtChoices :
        RunEnter(z80, start, stepsOpt, breakAtOpt, FALSE, Undefined)

CallCpuKeepingSp(cpu, spOpt) == cpu

\* Zat.call: the registers handed to run()
CallCpu(cpu, spOpt) ==
    IF spOpt # Undefined THEN [cpu EXCEPT !.sp = getAddress(spOpt)] ELSE cpu

\* Zat.call(start, sp, runOptions)
Call ==
    \E start \in StartChoices, spOpt \in SpChoices \cup {Undefined},
       stepsOpt \in StepsChoices, breakAtOpt \in BreakAtChoices :
        RunEnter(CallCpu(z80, spOpt), start, stepsOpt, breakAtOpt, TRUE, spOpt)

\* the registers and the last-instruction tag once the while condition has
\* been evaluated (the hook's observers may have changed them)
CpuAfterCondition == IF HookCalled THEN HookResult.cpu ELSE z80

LastAfterCondition == IF HookCalled THEN HookResult.last ELSE lastInstruction

CallsAfterCondition == mockCalls + (IF HookCalled THEN HookResult.calls ELSE 0)

\* one pass through the body of run()'s while loop
RunBody ==
    /\ phase = "running"
    /\ LoopCondition
    /\ FetchedOpcode([cpu |-> CpuAfterCondition, mem |-> memory]) \in Opcodes
    /\ \E m0 \in {[cpu |-> CpuAfterCondition, mem |-> memory, bus |-> <<>>,
                    val |-> 0]} :
          \E m \in {run_instruction(m0)} :
             /\ z80' = m.cpu
             /\ memory' = m.mem
             /\ bus' = m.bus
             /\ tStates' = tStates + run_instruction_cycles(m0)
             /\ lastInstruction' = InstructionTag(FetchedOpcode(m0))
             /\ callSite' = IF InstructionTag(FetchedOpcode(m0))
                                 \in {"CALL", "RST"}
                            THEN [pc |-> m0.cpu.pc, sp |-> m0.cpu.sp,
                                  target |-> m.cpu.pc]
                            ELSE callSite
    /\ count' = CountAfter(count)
    /\ iterations' = iterations + 1
    /\ hookEval' = HookEvalAfter
    /\ mockCalls' = CallsAfterCondition
    /\ UNCHANGED <<onMemRead, onMemWrite, onIoRead, onIoWrite, onStep, phase,
                   startSp, steps, breakAt, callOpt, result, stopReason, runs,
                   loads, staleHalted, callSp>>
    /\ UNCHANGED spyVars
    /\ UNCHANGED progVars
    /\ UNCHANGED snapVars
    /\ UNCHANGED cpuVars

\* one pass through the loop of a run with the default budget: the model
\* follows it for MaxCount passes
RunIterate ==
    /\ count < MaxCount
    /\ RunBody
    /\ UNCHANGED bellVars

\* the while condition is false: run() returns [count, tStates]
RunReturn ==
    /\ phase = "running"
    /\ ~LoopCondition
    /\ phase' = "returned"
    /\ result' = <<count, tStates>>
    /\ stopReason' = StopReason
    /\ z80' = CpuAfterCondition
    /\ lastInstruction' = LastAfterCondition
    /\ hookEval' = HookEvalAfter
    /\ mockCalls' = CallsAfterCondition
    /\ startSp' = 0
    /\ steps' = 0
    /\ breakAt' = Undefined
    /\ callOpt' = FALSE
    /\ callSp' = Undefined
    /\ count' = 0
    /\ tStates' = 0
    /\ iterations' = 0
    /\ bus' = <<>>
    /\ UNCHANGED <<memory, onMemRead, onMemWrite, onIoRead, onIoWrite,
                   onStep, runs, loads, staleHalted, callSite>>
    /\ UNCHANGED spyVars
    /\ UNCHANGED progVars
    /\ UNCHANGED snapVars
    /\ UNCHANGED cpuVars
    /\ UNCHANGED bellVars

\* zat.onStep = new StepMock(zat).set...(...).mock()
SetMocks ==
    /\ phase = "idle"
    /\ ~onStep.set
    /\ \E chain \in MockChains : onStep' = [set |-> TRUE, mocks |-> chain]
    /\ UNCHANGED <<z80, memory, onMemRead, onMemWrite, onIoRead, onIoWrite,
                   phase, startSp, steps, breakAt, callOpt, count,
                   tStates, result, stopReason, lastInstruction, bus, runs,
                   loads, iterations, staleHalted, callSp, hookEval, mockCalls,
                   callSite>>
    /\ UNCHANGED spyVars
    /\ UNCHANGED progVars
    /\ UNCHANGED snapVars
    /\ UNCHANGED cpuVars
    /\ UNCHANGED bellVars

\* Zat.run(start, {steps}) in the step-mock scenarios
RunMock ==
    \E start \in MockStartChoices, stepsOpt \in MockStepsChoices :
        RunEnter(z80, start, stepsOpt, Undefined, FALSE, Undefined)

(***************************************************************************)
(* The I/O spy (IoSpy) and its phases (ReturnValuesSpy, ExpectValuesSpy).  *)
(* An argument of onIn / onOut / ... is a record: tuple is TRUE for a      *)
(* [port, value] array, and isSeq is TRUE when the value is a string or an *)
(* array (kept as its bytes in seq) rather than a number (kept in num).    *)
(* Indices are 0-based as in the source.                                   *)
(***************************************************************************)
Bare(n)       == [tuple |-> FALSE, port |-> 0, isSeq |-> FALSE, num |-> n,
                  seq |-> <<>>]
BareSeq(q)    == [tuple |-> FALSE, port |-> 0, isSeq |-> TRUE, num |-> 0,
                  seq |-> q]
Tup(p, n)     == [tuple |-> TRUE, port |-> p, isSeq |-> FALSE, num |-> n,
                  seq |-> <<>>]
TupSeq(p, q)  == [tuple |-> TRUE, port |-> p, isSeq |-> TRUE, num |-> 0,
                  seq |-> q]

\* the constructors' normalisation of the rest arguments: (port, value) is
\* wrapped into a list of one pair
WrapValues(values) ==
    IF Len(values) = 2 /\ ~values[1].tuple
    THEN <<[port |-> values[1].num, isSeq |-> values[2].isSeq,
            num |-> values[2].num, seq |-> values[2].seq]>>
    ELSE [i \in 1 .. Len(values) |->
            [port |-> values[i].port, isSeq |-> values[i].isSeq,
             num |-> values[i].num, seq |-> values[i].seq]]

\* new ReturnValuesSpy(values, ignoreWrites) / new ExpectValuesSpy(values,
\* ignoreReads); handled counts the transactions of the phase's own
\* direction it has processed
NewSpy(kind, values, ignore) ==
    [kind |-> kind, values |-> WrapValues(values), ignore |-> ignore,
     index |-> 0, subIndex |-> 0, subValues |-> <<>>, finished |-> FALSE,
     handled |-> 0]

\* the constructors fail the test for an empty argument list
CtorFails(values) == IF Len(values) = 0 THEN 1 ELSE 0

\* subValues[subIndex]
SubValue(subValues, subIndex) ==
    IF subIndex < Len(subValues) THEN subValues[subIndex + 1] ELSE Undefined

\* the position after one transaction on the pair values[index]; the common
\* tail of ReturnValuesSpy.onRead and ExpectValuesSpy.onWrite
Advance(s) ==
    LET t == s.values[s.index + 1]
        subValues == IF t.isSeq /\ s.subIndex = 0 THEN t.seq ELSE s.subValues
    IN IF t.isSeq
       THEN IF s.subIndex + 1 = Len(t.seq)
            THEN [s EXCEPT !.subValues = subValues, !.subIndex = 0,
                           !.index = s.index + 1,
                           !.finished = (s.index + 1 = Len(s.values)),
                           !.handled = @ + 1]
            ELSE [s EXCEPT !.subValues = subValues,
                           !.subIndex = s.subIndex + 1,
                           !.handled = @ + 1]
       ELSE [s EXCEPT !.index = s.index + 1,
                      !.finished = (s.index + 1 = Len(s.values)),
                      !.handled = @ + 1]

\* the value the current pair stands for in this transaction
CurrentValue(s) ==
    LET t == s.values[s.index + 1]
    IN IF t.isSeq
       THEN SubValue(IF s.subIndex = 0 THEN t.seq ELSE s.subValues, s.subIndex)
       ELSE t.num

\* the results of a phase's handler: the phase afterwards, the value
\* returned, the test failures raised, and whether a TypeError was thrown
Threw(s) == [spy |-> s, ret |-> Undefined, fails |-> 0, threw |-> TRUE]

\* ReturnValuesSpy.onRead
ReturnValuesSpyOnRead(s, port) ==
    IF s.index >= Len(s.values) THEN Threw(s)
    ELSE [spy |-> Advance(s),
          ret |-> CurrentValue(s),
          fails |-> IF port % 256 # getAddress(s.values[s.index + 1].port)
                    THEN 1 ELSE 0,
          threw |-> FALSE]

ReturnValuesSpyOnWriteStrict(s, port, value) ==
    [spy |-> s, ret |-> Undefined, fails |-> 1, threw |-> FALSE]

\* ReturnValuesSpy.onWrite
ReturnValuesSpyOnWrite(s, port, value) ==
    [spy |-> s, ret |-> Undefined, fails |-> IF ~s.ignore THEN 1 ELSE 0,
     threw |-> FALSE]

ExpectValuesSpyOnReadSilent(s, port) ==
    [spy |-> s, ret |-> 0, fails |-> IF s.ignore THEN 1 ELSE 0,
     threw |-> FALSE]

\* ExpectValuesSpy.onRead
ExpectValuesSpyOnRead(s, port) ==
    [spy |-> s, ret |-> 0, fails |-> IF ~s.ignore THEN 1 ELSE 0,
     threw |-> FALSE]

\* ExpectValuesSpy.onWrite
ExpectValuesSpyOnWrite(s, port, value) ==
    IF s.index >= Len(s.values) THEN Threw(s)
    ELSE [spy |-> Advance(s),
          ret |-> Undefined,
          fails |-> (IF port % 256 # getAddress(s.values[s.index + 1].port)
                     THEN 1 ELSE 0)
                    + (IF value # CurrentValue(s) THEN 1 ELSE 0),
          threw |-> FALSE]

onRead(s, port) ==
    IF s.kind = "Return" THEN ReturnValuesSpyOnRead(s, port)
    ELSE ExpectValuesSpyOnRead(s, port)

onWrite(s, port, value) ==
    IF s.kind = "Return" THEN ReturnValuesSpyOnWrite(s, port, value)
    ELSE ExpectValuesSpyOnWrite(s, port, value)

\* IoSpy.allDone
allDone == spyIndex >= Len(spies)

\* the toBeComplete matcher: pass
toBeComplete == allDone

\* the common tail of readSpy and writeSpy: store the phase, move to the next
\* phase when this one has finished
AfterHandler(r) ==
    /\ spies' = [spies EXCEPT ![spyIndex + 1] = r.spy]
    /\ spyIndex' = IF r.spy.finished THEN spyIndex + 1 ELSE spyIndex
    /\ spyFails' = spyFails + r.fails
    /\ spyThrew' = FALSE
    /\ spyRet' = r.ret

\* the call threw a TypeError before it changed anything
HandlerThrew ==
    /\ spyThrew' = TRUE
    /\ spyRet' = Undefined
    /\ UNCHANGED <<spies, spyIndex, spyFails>>

\* the argument lists the scripts are built from:
\*   ()   (6, 1)   ([6, 1], [7, 2])   (6, [1, 2])   ([6, ""])
NoArgs       == <<>>
PairArgs     == <<Bare(6), Bare(1)>>
TupleArgs    == <<Tup(6, 1), Tup(7, 2)>>
PairSeqArgs  == <<Bare(6), BareSeq(<<1, 2>>)>>
EmptySeqArgs == <<TupSeq(6, <<>>)>>

OnInArgs    == {NoArgs, PairArgs, TupleArgs, PairSeqArgs, EmptySeqArgs}
OnOutArgs   == {PairArgs, TupleArgs, PairSeqArgs}
SendArgs    == {PairArgs}
ReceiveArgs == {PairArgs, PairSeqArgs}

\* the port (with the high address byte the CPU puts on the bus) of a read,
\* and the port and value of a write
ReadPorts == {6, 263}
Writes    == {<<6, 1>>, <<6, 2>>, <<263, 2>>}

\* IoSpy.spies.push(new ...Spy(values, ignore))
PushSpy(kind, values, ignore) ==
    /\ Len(spies) < MaxPhases
    /\ ~spyThrew
    /\ spies' = Append(spies, NewSpy(kind, values, ignore))
    /\ spyFails' = spyFails + CtorFails(values)
    /\ UNCHANGED <<spyIndex, spyThrew, spyRet, ioCalls, spyOp>>
    /\ UNCHANGED harnessVars
    /\ UNCHANGED progVars
    /\ UNCHANGED snapVars
    /\ UNCHANGED cpuVars
    /\ UNCHANGED bellVars

\* IoSpy.onIn(...values)
onIn == \E values \in OnInArgs : PushSpy("Return", values, FALSE)

\* IoSpy.sendIgnoringWrites(...values)
sendIgnoringWrites == \E values \in SendArgs : PushSpy("Return", values, TRUE)

\* IoSpy.onOut(...values)
onOut == \E values \in OnOutArgs : PushSpy("Expect", values, FALSE)

\* IoSpy.receiveIgnoringReads(...values)
receiveIgnoringReads ==
    \E values \in ReceiveArgs : PushSpy("Expect", values, TRUE)

\* the closure IoSpy.readSpy() returns, called with a port
readSpy ==
    /\ ioCalls < MaxIo
    /\ ~spyThrew
    /\ ioCalls' = ioCalls + 1
    /\ \E port \in ReadPorts :
          /\ spyOp' = [op |-> "read", port |-> port, value |-> 0]
          /\ IF spyIndex >= Len(spies) THEN HandlerThrew
            ELSE IF onRead(spies[spyIndex + 1], port).threw THEN HandlerThrew
            ELSE AfterHandler(onRead(spies[spyIndex + 1], port))
    /\ UNCHANGED harnessVars
    /\ UNCHANGED progVars
    /\ UNCHANGED snapVars
    /\ UNCHANGED cpuVars
    /\ UNCHANGED bellVars

\* the closure IoSpy.writeSpy() returns, called with a port and a value
writeSpy ==
    /\ ioCalls < MaxIo
    /\ ~spyThrew
    /\ ioCalls' = ioCalls + 1
    /\ \E w \in Writes :
          /\ spyOp' = [op |-> "write", port |-> w[1], value |-> w[2]]
          /\ IF spyIndex >= Len(spies) THEN HandlerThrew
            ELSE IF onWrite(spies[spyIndex + 1], w[1], w[2]).threw
                 THEN HandlerThrew
            ELSE AfterHandler(onWrite(spies[spyIndex + 1], w[1], w[2]))
    /\ UNCHANGED harnessVars
    /\ UNCHANGED progVars
    /\ UNCHANGED snapVars
    /\ UNCHANGED cpuVars
    /\ UNCHANGED bellVars

InitSpyIdle ==
    /\ spies = <<>>
    /\ spyIndex = 0
    /\ spyFails = 0
    /\ spyThrew = FALSE
    /\ spyRet = 0
    /\ ioCalls = 0
    /\ spyOp = [op |-> "none", port |-> 0, value |-> 0]

----------------------------------------------------------------------------
(***************************************************************************)
(* Symbols and compiled programs: getAddress() and loadProg() called by a  *)
(* test.                                                                   *)
(***************************************************************************)
\* names as character codes
NameGO    == <<71, 79>>                 \* "GO"
NameGo    == <<71, 111>>                \* "Go"
Namego    == <<103, 111>>               \* "go"
NameSTART == <<83, 84, 65, 82, 84>>     \* "START"
Nameno    == <<110, 111>>               \* "no": defined by no program

\* "org 5 / go: ret" and "start: ld a,19 / halt / org 5 / go: pop bc / ret"
\* as Zat.compile's comment lays the data out: from address 0, gaps zero
ProgOrg5 == [data |-> <<0, 0, 0, 0, 0, 201>>, symbols |-> (NameGO :> 5)]
ProgTwo  == [data |-> <<62, 19, 118, 0, 0, 193, 201>>,
             symbols |-> (NameSTART :> 0) @@ (NameGO :> 5)]
NoProg   == [data |-> <<>>, symbols |-> EmptyTable]
Progs    == {ProgOrg5, ProgTwo}

AddrArgs  == {Num(5), Str(NameGO), Str(NameGo), Str(Namego), Str(Nameno)}
StartArgs == {NoArg, Num(2), Num(5), Num(9), Str(Namego), Str(NameSTART),
              Str(Nameno)}

InitProg ==
    /\ symbols = EmptyTable
    /\ resolved = Undefined
    /\ progOp = [op |-> "none", arg |-> NoArg, prog |-> NoProg,
                brk |-> NoArg]
    /\ progOps = 0

\* a test calls zat.getAddress(addr)
GetAddress ==
    /\ progOps < MaxProgOps
    /\ \E addr \in AddrArgs :
          /\ resolved' = getAddressOf(symbols, addr)
          /\ progOp' = [op |-> "getAddress", arg |-> addr, prog |-> NoProg,
                brk |-> NoArg]
    /\ progOps' = progOps + 1
    /\ UNCHANGED <<harnessVars, spyVars, symbols>>
    /\ UNCHANGED snapVars
    /\ UNCHANGED cpuVars
    /\ UNCHANGED bellVars

\* a test calls zat.loadProg(prog, start)
LoadProg ==
    /\ progOps < MaxProgOps
    /\ phase # "running"
    /\ \E prog \in Progs, start \in StartArgs :
          LET after == loadProg(memory, symbols, prog, start)
          IN /\ memory' = after.memory
             /\ symbols' = after.symbols
             /\ progOp' = [op |-> "loadProg", arg |-> start, prog |-> prog,
                          brk |-> NoArg]
    /\ progOps' = progOps + 1
    /\ UNCHANGED <<z80, onMemRead, onMemWrite, onIoRead, onIoWrite, onStep,
                   phase, startSp, steps, breakAt, callOpt, count, tStates,
                   result, stopReason, lastInstruction, bus, runs, loads,
                   iterations, staleHalted, callSp, hookEval, mockCalls,
                   callSite>>
    /\ UNCHANGED <<spyVars, resolved>>
    /\ UNCHANGED snapVars
    /\ UNCHANGED cpuVars
    /\ UNCHANGED bellVars

\* the start and breakAt arguments of the runs below
RunStartArgs == {NoArg, Num(0), Str(NameSTART), Str(Nameno)}
RunBreakArgs == {NoArg, Num(2), Str(Namego), Str(Nameno)}

\* a test calls zat.run(start, {breakAt}) or zat.call(start, {breakAt}) with
\* symbols or numbers: this.z80.pc = this.getAddress(start) and
\* breakAt = this.getAddress(runOptions.breakAt)
RunNamed ==
    /\ progOps < MaxProgOps
    /\ \E start \in RunStartArgs, brk \in RunBreakArgs, callFlag \in BOOLEAN :
          LET cpu == IF start.type = "undefined" THEN z80
                     ELSE [z80 EXCEPT !.pc = getAddressOf(symbols, start)]
          IN /\ RunSetup(cpu, Undefined, Undefined,
                         getAddressOf(symbols, brk), callFlag, Undefined)
             /\ progOp' = [op |-> IF callFlag THEN "call" ELSE "run",
                           arg |-> start, prog |-> NoProg, brk |-> brk]
    /\ progOps' = progOps + 1
    /\ UNCHANGED <<symbols, resolved>>

\* "sound_bell", "sound_bell1" and their upper-case forms
NameSoundBell  == <<115, 111, 117, 110, 100, 95, 98, 101, 108, 108>>
NameSoundBell1 == NameSoundBell \o <<49>>

\* the sound_bell routine of the terminal program, assembled at 0
\*  0: C5        push bc            10: 0D        dec c
\*  1: 01 10 FF  ld bc,$FF10        11: C2 08 00  jp nz,sound_bell1
\*  4: 3E FF     ld a,$FF           14: 3E 00     ld a,$00
\*  6: D3 06     out (bell),a       16: D3 06     out (bell),a
\*  8: 10 FE     djnz sound_bell1   18: C1        pop bc
\*                                  19: C9        ret
BellProg ==
    [data |-> <<197, 1, 16, 255, 62, 255, 211, 6, 16, 254, 13, 194, 8, 0,
                62, 0, 211, 6, 193, 201>>,
     symbols |-> (toUpperCase(NameSoundBell) :> 0)
                 @@ (toUpperCase(NameSoundBell1) :> 8)]

\* 'should sound bell': zat.loadProg(prog); let count = 0;
\* zat.onMemRead = a hook that counts and returns undefined; zat.onIoWrite
SetUpBell ==
    /\ phase = "idle"
    /\ progOps = 0
    /\ LET after == loadProg(memory, symbols, BellProg, NoArg)
       IN /\ memory' = after.memory
          /\ symbols' = after.symbols
    /\ onMemRead' = "undefined"
    /\ onIoWrite' = "log"
    /\ watched' = 0
    /\ progOp' = [op |-> "loadProg", arg |-> NoArg, prog |-> BellProg,
                  brk |-> NoArg]
    /\ progOps' = progOps + 1
    /\ UNCHANGED <<z80, onMemWrite, onIoRead, onStep, phase, startSp, steps,
                   breakAt, callOpt, count, tStates, result, stopReason,
                   lastInstruction, bus, runs, loads, iterations, staleHalted,
                   callSp, hookEval, mockCalls, callSite>>
    /\ UNCHANGED <<spyVars, resolved>>
    /\ UNCHANGED snapVars
    /\ UNCHANGED cpuVars

\* zat.call('sound_bell')
CallBell ==
    /\ phase = "idle"
    /\ progOp.prog = BellProg
    /\ RunSetup([z80 EXCEPT !.pc = getAddressOf(symbols, Str(NameSoundBell))],
                Undefined, Undefined, Undefined, TRUE, Undefined)
    /\ UNCHANGED progVars

\* the calls of the onMemRead hook in which
\* addr == zat.getAddress('sound_bell1')
WatchedReads(transactions) ==
    Cardinality({i \in DOMAIN transactions :
                    /\ transactions[i].kind = "memRead"
                    /\ transactions[i].hooked
                    /\ transactions[i].addr
                         = getAddressOf(symbols, Str(NameSoundBell1))})

\* one pass through the loop of the call above, the hook counting
BellIterate ==
    /\ count < MaxBellCount
    /\ RunBody
    /\ watched' = watched + WatchedReads(bus')

\* A snapshot holds its parts either as copies or as references to the
\* harness's own objects; a part held by reference reads as the harness's
\* current value.
Copied(value) == [shared |-> FALSE, value |-> value]
Shared        == [shared |-> TRUE, value |-> <<>>]
SnapshotMemory(snap, mem)    ==
    IF snap.memory.shared THEN mem ELSE snap.memory.value
SnapshotSymbols(snap, table) ==
    IF snap.symbols.shared THEN table ELSE snap.symbols.value

saveMemorySharing(mem, table) ==
    [taken |-> TRUE, memory |-> Shared, symbols |-> Shared]

\* Zat.saveMemory: new Uint8Array(this.memory) and a copy of the symbols
saveMemory(mem, table) ==
    [taken |-> TRUE, memory |-> Copied(mem), symbols |-> Copied(table)]

\* Zat.loadMemory: memory.set(savedMemory.memory), symbols rebuilt
loadMemory(mem, table, snap) ==
    [memory  |-> SnapshotMemory(snap, mem),
     symbols |-> MergeSymbols(EmptyTable, SnapshotSymbols(snap, table))]

NoSnapshot == [taken |-> FALSE, memory |-> Copied(<<>>),
               symbols |-> Copied(EmptyTable)]

InitSnap ==
    /\ saved = NoSnapshot
    /\ savedAt = [memory |-> <<>>, symbols |-> EmptyTable]
    /\ overwritten = [memory |-> <<>>, symbols |-> EmptyTable]

\* a test calls saved = zat.saveMemory()
SaveMemory ==
    /\ progOps < MaxProgOps
    /\ phase # "running"
    /\ saved' = saveMemory(memory, symbols)
    /\ savedAt' = [memory |-> memory, symbols |-> symbols]
    /\ progOp' = [op |-> "saveMemory", arg |-> NoArg, prog |-> NoProg,
                brk |-> NoArg]
    /\ progOps' = progOps + 1
    /\ UNCHANGED <<harnessVars, spyVars, symbols, resolved, overwritten>>
    /\ UNCHANGED cpuVars
    /\ UNCHANGED bellVars

\* a test calls zat.loadMemory(saved)
LoadMemory ==
    /\ progOps < MaxProgOps
    /\ phase # "running"
    /\ saved.taken
    /\ LET after == loadMemory(memory, symbols, saved)
       IN /\ memory' = after.memory
          /\ symbols' = after.symbols
    /\ progOp' = [op |-> "loadMemory", arg |-> NoArg, prog |-> NoProg,
                brk |-> NoArg]
    /\ progOps' = progOps + 1
    /\ UNCHANGED <<z80, onMemRead, onMemWrite, onIoRead, onIoWrite, onStep,
                   phase, startSp, steps, breakAt, callOpt, count, tStates,
                   result, stopReason, lastInstruction, bus, runs, loads,
                   iterations, staleHalted, callSp, hookEval, mockCalls,
                   callSite>>
    /\ overwritten' = [memory |-> memory, symbols |-> symbols]
    /\ UNCHANGED <<spyVars, resolved, saved, savedAt>>
    /\ UNCHANGED cpuVars
    /\ UNCHANGED bellVars

\* a test runs the loaded program from address 0
RunLoaded == RunEnter(z80, 0, Undefined, Undefined, FALSE, Undefined)

----------------------------------------------------------------------------
(***************************************************************************)
(* The Z80 driven directly: a test sets the registers, loads a few bytes   *)
(* and calls run_instruction() and interrupt() itself.                     *)
(***************************************************************************)
RegisterNames == {"a", "b", "c", "d", "e", "h", "l", "flags", "ix", "iy",
                  "i", "r", "sp", "pc", "imode", "iff1", "iff2"}

\* Z80.getRegisters and Z80.setRegisters
getRegisters(cpu) == [f \in RegisterNames |-> cpu[f]]
setRegisters(cpu, registers) ==
    [f \in DOMAIN cpu |-> IF f \in RegisterNames THEN registers[f] ELSE cpu[f]]

\* the registers object of a test: those of a new Z80 but for some
With(overrides) == overrides @@ getRegisters(ResetCpu)
ZeroFlag == [NoFlags EXCEPT !.Z = 1]

\* zat.load([0xc9], 0x38); zat.load([0xc9], 0x66): RET at the entry points
\* of the mode-1 interrupt and of the NMI
InterruptHandlers(mem) == SetBytes(SetBytes(mem, <<201>>, 56), <<201>>, 102)

LatchCode   == <<251, 243, 0, 118>>     \* EI / DI / NOP / HALT
BranchCode  == <<16, 1, 0, 32, 0, 196, 9, 0, 118, 192, 118>>
    \* 0: DJNZ 3 / 2: NOP / 3: JR NZ,5 / 5: CALL NZ,9 / 8: HALT /
    \* 9: RET NZ / 10: HALT
IndexCode   == <<221, 9, 253, 9, 221, 0, 118>>
    \* ADD IX,BC / ADD IY,BC / DD, NOP / HALT
IndexCodeFd == <<253, 62, 5, 118>>      \* FD, LD A,5 / HALT
BlockCode   == <<237, 176, 237, 79, 237, 0, 118, 0, 33, 34>>
    \* LDIR / LD R,A / ED 00 / HALT / data at 8, 9
HaltCode    == <<118>>                  \* HALT
PrefixAfterEi == <<251, 221, 0, 118>>   \* EI / DD, NOP / HALT
DiHaltCode  == <<243, 118>>             \* DI / HALT
ArithCode   == <<237, 74, 237, 66, 118>>
    \* ADC HL,BC / SBC HL,BC / HALT

\* DD CB d op / HALT, and the byte 0x81 at 8
IndexedBitCode(d, op) == <<221, 203, d, op, 118, 0, 0, 0, 129>>

\* CB op / HALT
BitCode(op) == <<203, op, 118>>

\* the values of HL and of BC the arithmetic is tried on
HlValues      == {0, 1, 4095, 4096, 32767, 65535}
OperandValues == {0, 1, 4095, 32767, 65535}

CpuFixtures ==
    { [bytes |-> LatchCode,
       regs |-> With([iff1 |-> 1, iff2 |-> 1, imode |-> mode, i |-> 1,
                      r |-> 127])] : mode \in {0, 1, 2} }
    \cup
    { [bytes |-> BranchCode, regs |-> With([b |-> 2])],
      [bytes |-> BranchCode, regs |-> With([b |-> 1, flags |-> ZeroFlag])],
      [bytes |-> BranchCode, regs |-> With([pc |-> 9, flags |-> ZeroFlag])],
      [bytes |-> IndexCode,
       regs |-> With([ix |-> 65535, iy |-> 32768, b |-> 128])],
      [bytes |-> IndexCode, regs |-> With([ix |-> 1, iy |-> 2, c |-> 1])],
      [bytes |-> IndexCodeFd, regs |-> With([iy |-> 7, r |-> 255])],
      [bytes |-> PrefixAfterEi, regs |-> With([ix |-> 3])],
      [bytes |-> DiHaltCode, regs |-> With([iff1 |-> 1, iff2 |-> 1])],
      [bytes |-> BlockCode,
       regs |-> With([c |-> 2, l |-> 8, e |-> 16, a |-> 128, r |-> 126])],
      [bytes |-> BlockCode,
       regs |-> With([c |-> 1, l |-> 8, e |-> 16, a |-> 1, r |-> 255])],
      [bytes |-> BlockCode, regs |-> With([l |-> 8, e |-> 16])],
      [bytes |-> BlockCode, regs |-> With([b |-> 1, c |-> 1, l |-> 8, e |-> 16])],
      [bytes |-> HaltCode, regs |-> With([sp |-> 0, r |-> 255])],
      [bytes |-> HaltCode, regs |-> With([sp |-> 1, iff1 |-> 1, imode |-> 1])] }
    \cup
    { [bytes |-> ArithCode,
       regs |-> With([h |-> hl \div 256, l |-> hl % 256,
                      b |-> bc \div 256, c |-> bc % 256,
                      flags |-> [NoFlags EXCEPT !.C = carry], pc |-> at])] :
        hl \in HlValues, bc \in OperandValues, carry \in {0, 1},
        at \in {0, 2} }
    \cup
    { [bytes |-> IndexedBitCode(5, op),
       regs |-> With([ix |-> 3, flags |-> [NoFlags EXCEPT !.C = 1]])] :
        op \in 0 .. 255 }
    \cup
    { [bytes |-> IndexedBitCode(254, op), regs |-> With([ix |-> 10])] :
        op \in 0 .. 255 }
    \cup
    { [bytes |-> BitCode(op),
       regs |-> With([a |-> v, b |-> v, c |-> v, d |-> v, e |-> v, h |-> v,
                      l |-> v, flags |-> [NoFlags EXCEPT !.C = v % 2]])] :
        op \in 64 .. 127, v \in {0, 85, 127, 128, 170, 255} }
    \cup
    { [bytes |-> BitCode(op),
       regs |-> With([a |-> 129, b |-> 129, l |-> 1])] :
        op \in {0, 6, 63, 135, 134, 198, 199} }

\* the data bytes a device puts on the bus with an interrupt request
DataBytes == {243, 251, 199, 255}
InterruptArgs ==
    {[nmi |-> TRUE, data |-> 0]}
    \cup {[nmi |-> FALSE, data |-> data] : data \in DataBytes}

NoCpuArgs == [nmi |-> FALSE, data |-> 0]

\* the words a caller pushes
PushedWords == {0, 255, 256, 4660, 65535}

InitCpu ==
    /\ cpuOp = [op |-> "none", args |-> NoCpuArgs]
    /\ cpuRet = 0
    /\ cpuThrew = FALSE
    /\ cpuSteps = 0

\* the frame of the three actions below
CpuFrame ==
    /\ UNCHANGED <<onMemRead, onMemWrite, onIoRead, onIoWrite, onStep, phase,
                   startSp, steps, breakAt, callOpt, count, tStates, result,
                   stopReason, runs, loads, iterations, staleHalted, callSp,
                   hookEval, mockCalls, callSite>>
    /\ UNCHANGED <<spyVars, progVars, snapVars, bellVars>>

\* the set-up of a test: zat.load(bytes); zat.z80.setRegisters(registers)
SetUpCpu ==
    /\ cpuOp.op = "none"
    /\ \E f \in CpuFixtures :
          /\ z80' = setRegisters(z80, f.regs)
          /\ memory' = SetBytes(InterruptHandlers(memory), f.bytes, 0)
    /\ cpuOp' = [op |-> "setRegisters", args |-> NoCpuArgs]
    /\ UNCHANGED <<bus, cpuRet, cpuThrew, cpuSteps, lastInstruction>>
    /\ CpuFrame

\* the machine state a call on the Z80 starts from
Machine == [cpu |-> z80, mem |-> memory, bus |-> <<>>, val |-> 0]

\* a test calls zat.z80.run_instruction()
Step ==
    /\ cpuOp.op # "none"
    /\ cpuSteps < MaxCpuSteps
    /\ \E m \in {run_instruction(Machine)} :
          /\ z80' = m.cpu
          /\ memory' = m.mem
          /\ bus' = m.bus
    /\ cpuRet' = run_instruction_cycles(Machine)
    /\ lastInstruction' = IF z80.halted THEN lastInstruction
                          ELSE InstructionTag(FetchedOpcode(Machine))
    /\ cpuThrew' = FALSE
    /\ cpuOp' = [op |-> "run_instruction", args |-> NoCpuArgs]
    /\ cpuSteps' = cpuSteps + 1
    /\ CpuFrame

\* a test calls zat.z80.interrupt(non_maskable, data)
Interrupt ==
    /\ cpuOp.op # "none"
    /\ cpuSteps < MaxCpuSteps
    /\ \E args \in InterruptArgs :
          \E after \in {interrupt(Machine, args.nmi, args.data)} :
             /\ z80' = after.m.cpu
             /\ memory' = after.m.mem
             /\ bus' = after.m.bus
             /\ cpuThrew' = after.threw
             /\ lastInstruction' = InterruptTag(z80, args.nmi, lastInstruction)
             /\ cpuOp' = [op |-> "interrupt", args |-> args]
    /\ cpuSteps' = cpuSteps + 1
    /\ UNCHANGED cpuRet
    /\ CpuFrame

\* a test calls zat.z80.reset()
Reset ==
    /\ cpuOp.op # "none"
    /\ cpuSteps < MaxCpuSteps
    /\ z80' = reset(z80)
    /\ cpuThrew' = FALSE
    /\ cpuOp' = [op |-> "reset", args |-> NoCpuArgs]
    /\ cpuSteps' = cpuSteps + 1
    /\ UNCHANGED <<memory, bus, cpuRet, lastInstruction>>
    /\ CpuFrame

Init ==
    /\ InitHarness /\ InitSpyIdle /\ InitProg /\ InitSnap /\ InitCpu
    /\ watched = 0

Next == Load \/ SetHooks \/ Run \/ Call \/ RunIterate \/ RunReturn

Spec == Init /\ [][Next]_vars

NextMock == Load \/ SetMocks \/ RunMock \/ RunIterate \/ RunReturn

SpecMock == Init /\ [][NextMock]_vars

NextProg == Load \/ LoadProg \/ GetAddress

SpecProg == Init /\ [][NextProg]_vars

NextNamed == LoadProg \/ RunNamed \/ RunIterate \/ RunReturn

SpecNamed == Init /\ [][NextNamed]_vars

NextBell == SetUpBell \/ CallBell \/ BellIterate \/ RunReturn

SpecBell == Init /\ [][NextBell]_vars

NextCpu == SetUpCpu \/ Step \/ Interrupt \/ Reset

SpecCpu == Init /\ [][NextCpu]_vars

NextSnap ==
    \/ Load \/ LoadProg \/ SaveMemory \/ LoadMemory
    \/ RunLoaded \/ RunIterate \/ RunReturn

SpecSnap == Init /\ [][NextSnap]_vars

NextSpy ==
    \/ onIn \/ sendIgnoringWrites \/ onOut \/ receiveIgnoringReads
    \/ readSpy \/ writeSpy

SpecSpy == Init /\ [][NextSpy]_vars

----------------------------------------------------------------------------
(***************************************************************************)
(* Properties of the run loop.                                             *)
(***************************************************************************)

\* C1: a run stops as soon as PC equals the breakpoint address, before the
\* instruction stored there is executed: from a running state whose PC is the
\* breakpoint the only step is the return, it leaves registers (PC included)
\* and memory as they are, and it returns the counts reached so far, which are
\* zero instructions and zero T-states when the start address is the
\* breakpoint.
BreakAtStopsBeforeExecuting ==
    [][(phase = "running" /\ breakAt # Undefined /\ z80.pc = breakAt)
         => /\ phase' = "returned"
            /\ z80' = z80
            /\ z80'.pc = breakAt
            /\ memory' = memory
            /\ result' = <<count, tStates>>
            /\ (iterations = 0 => result' = NoRun)]_vars

\* a run that executed instructions and then returned at the breakpoint
StoppedAtBreakpoint ==
    /\ phase = "returned"
    /\ stopReason = "breakAt"
    /\ result[1] > 0
    /\ z80.pc \in BreakAtChoices

\* C2: a run executes at most `steps` instructions, and a run stopped by the
\* budget returns normally with the returned instruction count equal to
\* `steps`.
StepBudgetRespected ==
    [][/\ (phase = "running" => iterations <= steps /\ count <= steps)
       /\ (phase' = "running" => iterations' <= steps')
       /\ (phase = "running" /\ phase' = "returned" /\ stopReason' = "steps")
            => (result'[1] = steps /\ iterations = steps)]_vars

\* a run with a non-zero budget that the budget stopped
StoppedByBudget ==
    /\ phase = "returned"
    /\ stopReason = "steps"
    /\ result[1] > 0

\* C3: the step budget is a timeout whatever the hooks and the step-mock
\* chain do: the loop body is entered at most `steps` times, and once it has
\* been entered `steps` times the loop condition is false, so that the only
\* step left to the run is its return.
StepBudgetIsTimeout ==
    phase = "running" =>
        /\ iterations <= steps
        /\ (iterations >= steps => ~LoopCondition /\ ENABLED RunReturn)

\* a run with a step-mock chain and a memory hook installed used up a budget
\* of more than one step
BudgetEndedHookedRun ==
    /\ phase = "returned"
    /\ stopReason = "steps"
    /\ onStep.set
    /\ onMemWrite # "unset"
    /\ result[1] > 1

\* C4: with call == true the loop stops when the last executed instruction
\* was RET and SP equals (entry_SP + 2) mod 65536, for every entry SP, 0xFFFE
\* and 0xFFFF included: from such a state the only step is the return.
CallStopsAfterRetModulo ==
    [][(/\ phase = "running"
        /\ callOpt
        /\ iterations > 0
        /\ lastInstruction = "RET"
        /\ z80.sp = (startSp + 2) % 65536)
         => phase' = "returned"]_vars

\* C5: with call == true a run is never stopped by the call-return condition
\* after an instruction other than RET.
CallReturnOnlyAfterRet ==
    (phase = "returned" /\ stopReason = "callReturn")
        => lastInstruction = "RET"

\* C6: call() sets SP to the sp it is given and otherwise to the configured
\* default call-SP before the loop starts, so that the entry SP of the
\* call-return check is that value whatever SP was left behind.
CallSetsEntrySp ==
    (phase = "running" /\ callOpt)
        => startSp = (IF callSp # Undefined THEN callSp ELSE defaultCallSp)

\* C7: a run that follows a run ended by HALT is not stopped by the stale
\* halted flag: the flag is clear when the loop is entered, and a run that
\* the halted flag stopped executed at least one instruction (the HALT).
StaleHaltedCleared ==
    /\ (phase = "running" /\ iterations = 0) => ~z80.halted
    /\ (phase = "returned" /\ stopReason = "halted") => result[1] > 0

\* a run entered with the halted flag set by the run before it has executed
\* instructions
RanAfterHaltedRun ==
    /\ phase = "running"
    /\ staleHalted
    /\ iterations > 0

(***************************************************************************)
(* Properties of the bus callbacks.                                        *)
(***************************************************************************)

\* C8: a CPU memory read returns the read hook's value whenever the hook
\* returns a byte, the byte 0 included, and returns the backing-memory byte
\* (0 for a cell never written) when the hook answers "not handled" or no
\* hook is installed.
MemReadPrefersHookByte ==
    \A i \in DOMAIN bus :
        bus[i].kind = "memRead" =>
            /\ (bus[i].hooked /\ bus[i].answer \in 0 .. 255)
                 => bus[i].value = bus[i].answer
            /\ (~bus[i].hooked \/ bus[i].answer = Undefined)
                 => bus[i].value = bus[i].backing
            /\ bus[i].addr \notin DOMAIN memory /\ ~bus[i].hooked
                 => bus[i].value = 0

\* the read hook answered the byte 0 for a cell whose backing byte is not 0,
\* and the CPU read 0
HookAnsweredZeroByte ==
    \E i \in DOMAIN bus :
        /\ bus[i].kind = "memRead"
        /\ bus[i].hooked
        /\ bus[i].answer = 0
        /\ bus[i].backing # 0
        /\ bus[i].value = 0

\* C9: during a run a backing-memory cell changes only through a CPU write
\* the write hook did not suppress; suppressed writes, memory reads and I/O
\* transactions leave every cell as it is.
MemoryChangesOnlyByUnsuppressedWrite ==
    [][phase = "running" =>
         \A a \in (DOMAIN memory) \cup (DOMAIN memory') :
             Backing(memory', a) # Backing(memory, a) =>
                 \E i \in DOMAIN bus' :
                     /\ bus'[i].kind = "memWrite"
                     /\ bus'[i].addr = a
                     /\ ~(bus'[i].hooked /\ bus'[i].answer = 1)
                     /\ Backing(memory', a) = Byte(bus'[i].value)]_vars

\* the write hook suppressed a write of a byte that differs from the byte in
\* the cell, and the cell still holds its old byte
SuppressedWriteLeftCell ==
    \E i \in DOMAIN bus :
        /\ bus[i].kind = "memWrite"
        /\ bus[i].hooked
        /\ bus[i].answer = 1
        /\ bus[i].value # bus[i].backing
        /\ Backing(memory, bus[i].addr) = bus[i].backing

(***************************************************************************)
(* Properties of the I/O spy.                                              *)
(***************************************************************************)

\* the number of transactions a phase scripts: one per (port, number) pair
\* and len(seq) per (port, seq) pair
RECURSIVE ScriptedTransactions(_)
ScriptedTransactions(values) ==
    IF values = <<>> THEN 0
    ELSE (IF Head(values).isSeq THEN Len(Head(values).seq) ELSE 1)
         + ScriptedTransactions(Tail(values))

\* no scripted transaction of the phase is outstanding
FullyConsumed(s) == s.handled >= ScriptedTransactions(s.values)

\* C10: after any sequence of I/O reads and writes on a script whose phases
\* were each built from at least one pair, allDone() and the toBeComplete
\* matcher are true if and only if every scripted phase has been fully
\* consumed, and false while a scripted transaction is outstanding.
CompleteIffAllConsumed ==
    (\A i \in DOMAIN spies : Len(spies[i].values) > 0)
        => /\ toBeComplete = allDone
           /\ allDone <=> (\A i \in DOMAIN spies : FullyConsumed(spies[i]))

\* the phase a transaction arriving now is handed to
CurrentSpy == spies[spyIndex + 1]

\* this step is a transaction handed to a phase of the script
IoStep == ioCalls' = ioCalls + 1 /\ spyIndex < Len(spies)

\* C11: a read that arrives while the current phase is a write phase without
\* the ignore-reads flag fails the test, returns 0 and does not advance the
\* script; a write that arrives during a read phase without the
\* ignore-writes flag fails the test and does not advance the script.
WrongDirectionFails ==
    [][IoStep =>
         /\ (spyOp'.op = "read" /\ CurrentSpy.kind = "Expect"
               /\ ~CurrentSpy.ignore)
              => /\ spyFails' = spyFails + 1
                 /\ spyRet' = 0
                 /\ spies' = spies
                 /\ spyIndex' = spyIndex
                 /\ ~spyThrew'
         /\ (spyOp'.op = "write" /\ CurrentSpy.kind = "Return"
               /\ ~CurrentSpy.ignore)
              => /\ spyFails' = spyFails + 1
                 /\ spies' = spies
                 /\ spyIndex' = spyIndex
                 /\ ~spyThrew']_vars

\* a read has just arrived in a write phase without the flag: the test has
\* failed, 0 was returned and the phase has handled nothing
ReadFailedInWritePhase ==
    /\ spyOp.op = "read"
    /\ spyIndex < Len(spies)
    /\ CurrentSpy.kind = "Expect"
    /\ ~CurrentSpy.ignore
    /\ CurrentSpy.handled = 0
    /\ spyFails > 0
    /\ spyRet = 0

\* C12: a read that arrives after every phase has been consumed fails the
\* test and returns 0 to the CPU.
ReadPastScriptFailsAndReturnsZero ==
    [][(ioCalls' = ioCalls + 1 /\ spyOp'.op = "read" /\ allDone)
         => /\ spyFails' = spyFails + 1
            /\ spyRet' = 0
            /\ ~spyThrew']_vars

\* C13: a pair (port, seq) expects exactly len(seq) successive transactions,
\* using the bytes of seq in order (returned on reads, compared on writes),
\* and the spy moves to the next pair only after the len(seq)-th of them,
\* for every length, the empty sequence included: a transaction handled by
\* such a pair is one of its len(seq) transactions, a read returns the byte at
\* its position, a write is compared with it, and the position moves to the
\* next pair exactly at the last byte.
SequencePairTakesLenTransactions ==
    [][(/\ IoStep
        /\ ~spyThrew'
        /\ CurrentSpy.kind = (IF spyOp'.op = "read" THEN "Return" ELSE "Expect")
        /\ CurrentSpy.index < Len(CurrentSpy.values)
        /\ CurrentSpy.values[CurrentSpy.index + 1].isSeq)
         => LET t == CurrentSpy.values[CurrentSpy.index + 1]
                k == CurrentSpy.subIndex
                after == spies'[spyIndex + 1]
            IN /\ k < Len(t.seq)
               /\ spyOp'.op = "read" =>
                     /\ spyRet' = t.seq[k + 1]
                     /\ spyFails' = spyFails <=> spyOp'.port % 256 = t.port
               /\ spyOp'.op = "write" =>
                     (spyFails' = spyFails
                        <=> /\ spyOp'.port % 256 = t.port
                            /\ spyOp'.value = t.seq[k + 1])
               /\ IF k + 1 = Len(t.seq)
                  THEN after.index = CurrentSpy.index + 1 /\ after.subIndex = 0
                  ELSE after.index = CurrentSpy.index
                       /\ after.subIndex = k + 1]_vars

\* C14: while the current phase has its ignore flag set, a transaction of
\* the opposite direction passes silently: it raises no test failure, does
\* not advance the phase or its position and leaves the script, and so the
\* values later matching transactions return or expect, as it is.
IgnoredDirectionPassesSilently ==
    [][(/\ IoStep
        /\ \/ (spyOp'.op = "read" /\ CurrentSpy.kind = "Expect")
           \/ (spyOp'.op = "write" /\ CurrentSpy.kind = "Return")
        /\ CurrentSpy.ignore)
         => /\ spyFails' = spyFails
            /\ spies' = spies
            /\ spyIndex' = spyIndex
            /\ ~spyThrew']_vars

\* two or more writes have passed a read phase with the ignore-writes flag
\* set, without a failure and without the phase moving
WritesIgnoredInReadPhase ==
    /\ spyOp.op = "write"
    /\ ioCalls >= 2
    /\ spyIndex = 0
    /\ Len(spies) > 0
    /\ CurrentSpy.kind = "Return"
    /\ CurrentSpy.ignore
    /\ CurrentSpy.handled = 0
    /\ spyFails = 0

(***************************************************************************)
(* Properties of the step-mock chain.                                      *)
(***************************************************************************)

\* C15: on each step the chain consults its observers in order, each at most
\* once; the first observer that answers BREAK or SKIP decides the step and
\* no later observer is consulted; the chain answers RUN only when every
\* observer answered RUN.
FirstNonRunDecides ==
    hookEval.consulted =>
        LET tr == hookEval.trace
            n  == Len(onStep.mocks)
        IN /\ Len(tr) <= n
           /\ \A i \in DOMAIN tr : tr[i].id = onStep.mocks[i].id
           /\ \A i \in DOMAIN tr : i < Len(tr) => tr[i].resp = "RUN"
           /\ hookEval.resp = "RUN"
                <=> (Len(tr) = n /\ \A i \in DOMAIN tr : tr[i].resp = "RUN")
           /\ hookEval.resp # "RUN" => tr[Len(tr)].resp = hookEval.resp

\* an observer in the middle of a chain answered SKIP and the observers
\* registered after it were not consulted
LaterObserversNotConsulted ==
    /\ hookEval.consulted
    /\ hookEval.resp = "SKIP"
    /\ Len(hookEval.trace) > 1
    /\ Len(hookEval.trace) < Len(onStep.mocks)

\* the documented priority of the observer kinds
Rank(kind) ==
    CASE kind = "Breakpoint" -> 1
      [] kind = "FakeCall"   -> 2
      [] kind = "OnStep"     -> 3
      [] kind = "OnAllSteps" -> 4
      [] kind = "Logger"     -> 5

\* C16: whatever order the observers were registered in, the chain consults
\* them in the priority breakpoint, fake-call, user on-step, on-every-step,
\* logger; in particular a fake call never fires at an address that also has
\* a breakpoint.
ConsultedInPriorityOrder ==
    hookEval.consulted =>
        LET tr == hookEval.trace
        IN /\ \A i, j \in DOMAIN tr :
                 i < j => Rank(tr[i].kind) <= Rank(tr[j].kind)
           /\ \A i \in DOMAIN tr :
                 (tr[i].kind = "FakeCall" /\ tr[i].resp = "SKIP") =>
                     ~\E j \in DOMAIN onStep.mocks :
                          /\ onStep.mocks[j].kind = "Breakpoint"
                          /\ onStep.mocks[j].addr = onStep.mocks[i].addr

\* a fake-call observer for the current PC is reached by the chain: every
\* observer registered before it answers RUN
FakeCallReached ==
    \E i \in DOMAIN onStep.mocks :
        /\ onStep.mocks[i].kind = "FakeCall"
        /\ onStep.mocks[i].addr = z80.pc
        /\ \A j \in 1 .. (i - 1) :
              MockOnStep(onStep.mocks[j],
                         Context(z80, memory, lastInstruction)).resp = "RUN"

\* C17: when a CALL nn at address p has just been executed and the chain
\* reaches a fake-call observer for the address called, the observer invokes
\* the user callback exactly once, pops the return address so that PC = p + 3
\* and SP is back at its value before the CALL, marks the last instruction
\* as RET and answers SKIP; no instruction of the routine is executed:
\* memory, the other registers and the instruction count are as they were.
FakeCallReturnsToCaller ==
    [][(/\ phase = "running"
        /\ HookCalled
        /\ iterations > 0
        /\ lastInstruction = "CALL"
        /\ FakeCallReached)
         => /\ mockCalls' = mockCalls + 1
            /\ z80' = [z80 EXCEPT !.pc = Word(callSite.pc + 3),
                                  !.sp = callSite.sp]
            /\ lastInstruction' = "RET"
            /\ hookEval'.resp = "SKIP"
            /\ memory' = memory
            /\ phase' = "returned"
            /\ result' = <<count, tStates>>]_vars

\* a run executed a CALL, the fake call took the place of the routine and
\* the run stopped with PC behind the CALL
FakeCallTookPlace ==
    /\ phase = "returned"
    /\ stopReason = "onStep"
    /\ hookEval.resp = "SKIP"
    /\ mockCalls = 1
    /\ lastInstruction = "RET"
    /\ result[1] > 0
    /\ z80.pc = Word(callSite.pc + 3)
    /\ z80.sp = callSite.sp

\* the instruction executed last was a CALL or an RST, or an interrupt was
\* accepted last
ArrivedByCall == lastInstruction \in {"CALL", "RST", "INT"}

----------------------------------------------------------------------------
\* the address the start argument of the last loadProg() resolved to
StartAddress(table, op) == getAddressOf(table, op.arg)

\* C19: getAddress returns a numeric argument unchanged, resolves a string
\* argument through the symbol table whatever its case, and never returns an
\* undefined address: for a string that names no symbol the call must fail
\* instead of returning.
GetAddressResolvesOrFails ==
    progOp.op = "getAddress" =>
        /\ progOp.arg.type = "number" => resolved = progOp.arg.num
        /\ progOp.arg.type = "string" =>
              /\ \A k \in DOMAIN symbols :
                    k = toUpperCase(progOp.arg.str) => resolved = symbols[k]
              /\ resolved # Undefined

\* C20: loadProg(prog, start) with start resolving to the address s leaves
\* every cell below s as it was, writes prog.data[a] to every cell a >= s the
\* data covers, and changes nothing else.
LoadProgWritesFromStartOnly ==
    [][(/\ progOp'.op = "loadProg"
        /\ progOps' # progOps
        /\ progOp'.arg.type # "undefined"
        /\ StartAddress(symbols', progOp') # Undefined)
       => LET s    == StartAddress(symbols', progOp')
              data == progOp'.prog.data
          IN \A a \in (DOMAIN memory) \cup (DOMAIN memory') \cup
                      (0 .. Len(data) + s) :
                Backing(memory', a) =
                    IF a >= s /\ a < Len(data) THEN data[a + 1]
                    ELSE Backing(memory, a)]_vars

\* a program was loaded from s > 0 on: a cell below s still differs from the
\* program's byte for it, and the cell s holds the program's byte
LoadedAboveKeptBelow ==
    /\ progOp.op = "loadProg"
    /\ progOp.arg.type # "undefined"
    /\ LET s    == StartAddress(symbols, progOp)
           data == progOp.prog.data
       IN /\ s # Undefined /\ s > 0 /\ s < Len(data)
          /\ data[s + 1] # 0
          /\ Backing(memory, s) = data[s + 1]
          /\ \E a \in 0 .. s - 1 :
                Backing(memory, a) # 0 /\ Backing(memory, a) # data[a + 1]

----------------------------------------------------------------------------
\* C21: loadMemory of a snapshot puts the backing memory and the symbol
\* table back to what they were when saveMemory was called, whatever was
\* loaded, compiled or run in between, and at every moment the snapshot
\* still holds what was saved.
LoadMemoryRestoresSnapshot ==
    [][/\ saved'.taken =>
            /\ SnapshotMemory(saved', memory') = savedAt'.memory
            /\ SnapshotSymbols(saved', symbols') = savedAt'.symbols
       /\ (progOp'.op = "loadMemory" /\ progOps' # progOps) =>
            /\ memory' = savedAt.memory
            /\ symbols' = savedAt.symbols]_vars

\* a snapshot was restored over a memory and a symbol table that had both
\* changed since it was taken
RestoredOverChanges ==
    /\ progOp.op = "loadMemory"
    /\ memory = savedAt.memory
    /\ symbols = savedAt.symbols
    /\ overwritten.memory # memory
    /\ overwritten.symbols # symbols
    /\ memory # <<>>
    /\ runs > 0

----------------------------------------------------------------------------
\* C22: after every step all 8-bit register fields are in 0..255 and all
\* 16-bit fields (PC, SP, IX, IY) are in 0..65535, also after an ADD IX,rr
\* or ADD IY,rr that overflows 16 bits.
RegistersStayInRange ==
    /\ \A f \in {"a", "b", "c", "d", "e", "h", "l", "i", "r"} :
          z80[f] \in 0 .. 255
    /\ \A f \in {"pc", "sp", "ix", "iy"} : z80[f] \in 0 .. 65535

\* C23: in every state, whatever SP is (0 and 1 included, where the stack
\* wraps around the address space), pushing a word w and popping it again
\* returns w and leaves SP where it was.
PushThenPopReturnsWord ==
    \A w \in PushedWords :
        LET m == pop_word(push_word(Machine, w))
        IN m.val = w /\ m.cpu.sp = z80.sp

\* an NMI pushed the PC through a stack that wraps around the address space
\* and the handler's RET popped it: PC and SP are back
ReturnedThroughWrappedStack ==
    /\ cpuOp.op = "run_instruction"
    /\ z80.sp \in {0, 1}
    /\ z80.pc = 1
    /\ \E a \in {65534, 65535} : a \in DOMAIN memory

\* the call being made is a run_instruction() that executes LD R,A (ED 4F)
ExecutesLdRA ==
    /\ cpuOp'.op = "run_instruction"
    /\ ~z80.halted
    /\ FetchedOpcode(Machine) = 237
    /\ memReadValue(memory, Word(z80.pc + 1)) = 79

\* C24: a step or an interrupt that does not execute LD R,A leaves bit 7 of
\* R as it was and advances the low 7 bits modulo 128 (by one per opcode
\* fetch, so 0x7F is followed by 0x00).
RefreshKeepsBit7 ==
    [][(/\ cpuSteps' # cpuSteps
        /\ cpuOp'.op \in {"run_instruction", "interrupt"}
        /\ ~ExecutesLdRA)
         => /\ z80'.r \div 128 = z80.r \div 128
            /\ \E ticks \in 0 .. 2 :
                  z80'.r % 128 = ((z80.r % 128) + ticks) % 128]_vars

\* R went from 0xFF to 0x80: the low bits wrapped under a set bit 7
RefreshWrappedUnderBit7 ==
    /\ cpuOp.op = "run_instruction"
    /\ cpuSteps = 1
    /\ z80.halted
    /\ z80.r = 128

\* the call being made on the Z80
Stepping     == cpuSteps' # cpuSteps /\ cpuOp'.op = "run_instruction"
Interrupting == cpuSteps' # cpuSteps /\ cpuOp'.op = "interrupt"

\* C25: run_instruction() on a halted CPU returns 1 and changes nothing:
\* no register, flag, flip-flop or latch, no memory cell, and no read, write
\* or I/O reaches the bus.
HaltedStepChangesNothing ==
    [][(Stepping /\ z80.halted)
         => /\ cpuRet' = 1
            /\ z80' = z80
            /\ memory' = memory
            /\ bus' = <<>>]_vars

\* run_instruction() was called on a halted CPU
SteppedWhileHalted ==
    /\ cpuOp.op = "run_instruction"
    /\ z80.halted
    /\ cpuRet = 1

\* C26: the DI latch and the EI latch are never both set.
LatchesExclusive == ~(z80.do_delayed_di /\ z80.do_delayed_ei)

\* C27: a non-maskable interrupt is taken whatever IFF1 is: halted is
\* cleared, IFF2 takes the old IFF1, IFF1 becomes 0, the PC is pushed, PC
\* becomes 0x0066, 11 T-states are charged and R is auto-incremented.
NmiAlwaysAccepted ==
    [][(Interrupting /\ cpuOp'.args.nmi)
         => /\ ~cpuThrew'
            /\ ~z80'.halted
            /\ z80'.iff2 = z80.iff1
            /\ z80'.iff1 = 0
            /\ z80'.sp = Word(z80.sp + 65534)
            /\ Backing(memory', z80'.sp) = z80.pc % 256
            /\ Backing(memory', Word(z80'.sp + 1)) = z80.pc \div 256
            /\ z80'.pc = 102
            /\ z80'.cycle_counter = z80.cycle_counter + 11
            /\ z80'.r = ((z80.r \div 128) * 128) + (((z80.r % 128) + 1) % 128)]_vars

\* an NMI was taken with IFF1 = 0, from a PC with non-zero low byte
NmiTakenWhileMasked ==
    /\ cpuOp.op = "interrupt"
    /\ cpuOp.args.nmi
    /\ z80.iff2 = 0
    /\ z80.pc = 102
    /\ Backing(memory, z80.sp) # 0

\* C28: a maskable interrupt in mode 2 with IFF1 = 1 returns without
\* raising, having pushed the PC, set PC to the little-endian word at
\* (I << 8) | data and charged 19 T-states.
Mode2InterruptVectors ==
    [][(Interrupting /\ ~cpuOp'.args.nmi /\ z80.iff1 = 1 /\ z80.imode = 2)
         => LET vector == z80.i * 256 + cpuOp'.args.data
            IN /\ ~cpuThrew'
               /\ z80'.sp = Word(z80.sp + 65534)
               /\ Backing(memory', z80'.sp) = z80.pc % 256
               /\ Backing(memory', Word(z80'.sp + 1)) = z80.pc \div 256
               /\ z80'.pc = memReadValue(memory', vector)
                            + 256 * memReadValue(memory', Word(vector + 1))
               /\ z80'.cycle_counter = z80.cycle_counter + 19]_vars

\* the T-states the instruction being run is charged: what run_instruction
\* returns, less what interrupts had left in the cycle counter before
StepCost == cpuRet' - z80.cycle_counter

\* the second byte of the instruction being run
SecondByte == memReadValue(memory, Word(z80.pc + 1))

\* C29: a conditional control-flow instruction costs its base T-states when
\* the condition does not hold, and a fixed increment more when it does: 5
\* for DJNZ and JR cc, 7 for CALL cc, 6 for RET cc, 5 for LDIR repeating.
ConditionalCostsFixedIncrement ==
    [][(Stepping /\ ~z80.halted)
         => LET opcode == FetchedOpcode(Machine)
                nz     == z80.flags.Z = 0
            IN /\ opcode = 16 =>
                    StepCost = cycle_counts(16)
                               + (IF z80.b # 1 THEN 5 ELSE 0)
               /\ opcode = 32 =>
                    StepCost = cycle_counts(32) + (IF nz THEN 5 ELSE 0)
               /\ opcode = 196 =>
                    StepCost = cycle_counts(196) + (IF nz THEN 7 ELSE 0)
               /\ opcode = 192 =>
                    StepCost = cycle_counts(192) + (IF nz THEN 6 ELSE 0)
               /\ (opcode = 237 /\ SecondByte = 176) =>
                    StepCost = cycle_counts_ed(176)
                               + (IF z80.c + z80.b * 256 # 1 THEN 5 ELSE 0)]_vars

\* CALL NZ,9 at 5 was taken and cost 17 T-states
ConditionalCallTaken ==
    /\ cpuOp.op = "run_instruction"
    /\ z80.pc = 9
    /\ cpuRet = 17
    /\ Backing(memory, z80.sp) = 8

\* C30: a step on a DD or FD prefix at p followed by a byte the indexed
\* table does not have costs one NOP, ends with PC = p + 1 and changes no
\* register but PC and R, so that the next step fetches the byte at p + 1.
UnknownIndexedFallsBack ==
    [][(/\ Stepping
        /\ ~z80.halted
        /\ FetchedOpcode(Machine) \in {221, 253}
        /\ SecondByte \notin dd_instructions)
       => /\ StepCost = cycle_counts(0)
          /\ z80'.pc = Word(z80.pc + 1)
          /\ memReadValue(memory', z80'.pc) = SecondByte
          /\ \A f \in RegisterNames \ {"pc", "r"} : z80'[f] = z80[f]]_vars

\* C31: a step that executes HALT (0x76) ends with halted set and
\* IFF1 = IFF2 = 1, whatever instruction came before it, DI included.
HaltForcesInterruptsOn ==
    [][(Stepping /\ ~z80.halted /\ FetchedOpcode(Machine) = 118)
         => /\ z80'.halted
            /\ z80'.iff1 = 1
            /\ z80'.iff2 = 1]_vars

\* the instruction being run is a DD or FD prefix followed by a byte the
\* indexed table does not have: the step consumes the prefix only
ConsumesPrefixOnly ==
    /\ FetchedOpcode(Machine) \in {221, 253}
    /\ SecondByte \notin dd_instructions

\* C32: IFF1 and IFF2 keep their values over the steps after an EI or a DI
\* until one instruction that is not a bare unrecognised DD/FD prefix has
\* completed, and are 1 (after EI) or 0 (after DI) right after that
\* instruction; a step that only consumes such a prefix leaves them, and the
\* pending change, as they were.
DelayedChangeWaitsForInstruction ==
    [][(Stepping /\ ~z80.halted)
         => LET di == z80.do_delayed_di
                ei == z80.do_delayed_ei /\ ~z80.do_delayed_di
            IN /\ (di /\ ~ConsumesPrefixOnly)
                     => z80'.iff1 = 0 /\ z80'.iff2 = 0
               /\ (ei /\ ~ConsumesPrefixOnly)
                     => z80'.iff1 = 1 /\ z80'.iff2 = 1
               /\ ConsumesPrefixOnly
                     => /\ z80'.iff1 = z80.iff1
                        /\ z80'.iff2 = z80.iff2
                        /\ z80'.do_delayed_di = z80.do_delayed_di
                        /\ z80'.do_delayed_ei = z80.do_delayed_ei
               /\ (~di /\ ~ei /\ FetchedOpcode(Machine) # 118)
                     => z80'.iff1 = z80.iff1 /\ z80'.iff2 = z80.iff2]_vars

\* C33: a step on LDIR at p takes one from BC (modulo 65536, so BC = 0
\* counts as 65,536); while that leaves BC non-zero the step ends with PC
\* back at p and costs the base T-states plus 5, and the step that brings BC
\* to 0 costs the base T-states and ends with PC = p + 2: LDIR entered with
\* BC = n is over after exactly n steps.
LdirRepeatsUntilCountZero ==
    [][(/\ Stepping
        /\ ~z80.halted
        /\ FetchedOpcode(Machine) = 237
        /\ SecondByte = 176)
       => LET left == Word(z80.c + z80.b * 256 + 65535)
          IN /\ z80'.c + z80'.b * 256 = left
             /\ left # 0 => /\ z80'.pc = z80.pc
                            /\ StepCost = cycle_counts_ed(176) + 5
             /\ left = 0 => /\ z80'.pc = Word(z80.pc + 2)
                            /\ StepCost = cycle_counts_ed(176)]_vars

\* LDIR at 0 entered with BC = 2 was over after two steps: both bytes
\* copied, BC = 0, PC = 2, the last step at the base cost
LdirOverAfterCountSteps ==
    /\ cpuOp.op = "run_instruction"
    /\ cpuSteps = 2
    /\ z80.pc = 2
    /\ z80.b = 0 /\ z80.c = 0
    /\ z80.e = 18
    /\ Backing(memory, 16) = 33 /\ Backing(memory, 17) = 34
    /\ cpuRet = cycle_counts_ed(176)

\* C34: after ADC HL,BC and SBC HL,BC the H flag is the carry (borrow) out
\* of bit 11 and the C flag the carry (borrow) out of bit 15 of HL plus
\* (minus) BC plus (minus) the incoming carry.
HlCarryFlagsExact ==
    [][(/\ Stepping
        /\ ~z80.halted
        /\ FetchedOpcode(Machine) = 237
        /\ SecondByte \in {66, 74})
       => LET hl  == z80.l + z80.h * 256
              bc  == z80.c + z80.b * 256
              cin == z80.flags.C
          IN IF SecondByte = 74
             THEN /\ z80'.flags.H =
                       (IF (hl % 4096) + (bc % 4096) + cin > 4095
                        THEN 1 ELSE 0)
                  /\ z80'.flags.C = (IF hl + bc + cin > 65535 THEN 1 ELSE 0)
             ELSE /\ z80'.flags.H =
                       (IF (hl % 4096) < (bc % 4096) + cin THEN 1 ELSE 0)
                  /\ z80'.flags.C = (IF hl < bc + cin THEN 1 ELSE 0)]_vars

\* C35: a step on DD CB d op reads the byte at IX + d; a shift or rotate
\* (op < 0x40) writes the transformed byte back there and, when the low
\* three bits of op are not 6, leaves the same byte in the register they
\* select; RES and SET write the byte with the bit cleared or set back; BIT
\* changes flags only, no memory cell and no general register.  Nothing else
\* of memory and no other general register changes.
IndexedBitOpsWriteBack ==
    [][(/\ Stepping
        /\ ~z80.halted
        /\ FetchedOpcode(Machine) = 221
        /\ SecondByte = 203)
       => LET d    == get_signed_offset_byte(
                          memReadValue(memory, Word(z80.pc + 2)))
              op   == memReadValue(memory, Word(z80.pc + 3))
              addr == Word(z80.ix + d + 65536)
              old  == memReadValue(memory, addr)
              new  == memReadValue(memory', addr)
              n    == (op \div 8) % 8
              kept == IF op \in 64 .. 127
                      THEN {"a", "b", "c", "d", "e", "h", "l"}
                      ELSE {"a", "b", "c", "d", "e", "h", "l"}
                             \ {SelectedRegister(op)}
          IN /\ op < 64 =>
                  /\ new = ddcb_functions(n, z80.flags, old).value
                  /\ op % 8 # 6 => z80'[SelectedRegister(op)] = new
             /\ op \in 64 .. 127 =>
                  /\ memory' = memory
                  /\ z80'.flags.Z = 1 - Bit(old, n)
             /\ op \in 128 .. 191 =>
                  /\ Bit(new, n) = 0
                  /\ new + Bit(old, n) * (2 ^ n) = old
             /\ op \in 192 .. 255 =>
                  /\ Bit(new, n) = 1
                  /\ new = old + (1 - Bit(old, n)) * (2 ^ n)
             /\ memory' = Store(memory, addr, new)
             /\ \A f \in kept : z80'[f] = z80[f]]_vars

\* RLC (IX+5),B was run on the byte 0x81: the byte at 8 and B are both 0x03
RotatedIntoMemoryAndRegister ==
    /\ cpuOp.op = "run_instruction"
    /\ z80.pc = 4
    /\ Backing(memory, 8) = 3
    /\ z80.b = 3
    /\ z80.flags.C = 1

\* C36: a maskable interrupt accepted in mode 0 at PC = p with an RST n on
\* the data bus pushes p as the return address, leaves the PC at n, so that
\* the next step fetches its opcode there, and charges the T-states of the
\* RST plus 2.
Mode0RstCallsFromInterruptedPc ==
    [][(/\ Interrupting
        /\ ~cpuOp'.args.nmi
        /\ z80.iff1 = 1
        /\ z80.imode = 0
        /\ cpuOp'.args.data \in RstOpcodes)
       => /\ ~cpuThrew'
          /\ z80'.sp = Word(z80.sp + 65534)
          /\ Backing(memory', z80'.sp) = z80.pc % 256
          /\ Backing(memory', Word(z80'.sp + 1)) = z80.pc \div 256
          /\ z80'.pc = cpuOp'.args.data - 199
          /\ z80'.cycle_counter
               = z80.cycle_counter + cycle_counts(cpuOp'.args.data) + 2]_vars

\* the argument is a symbol the table does not have
Unresolvable(table, arg) ==
    arg.type = "string" /\ toUpperCase(arg.str) \notin DOMAIN table

\* the run()/call() last made was given a start or a breakAt symbol that
\* cannot be resolved
RunOnUnresolvable(table, op) ==
    /\ op.op \in {"run", "call"}
    /\ Unresolvable(table, op.arg) \/ Unresolvable(table, op.brk)

\* C37: run() and call() given a start or breakAt symbol that cannot be
\* resolved stop in their set-up: PC, SP and halted are what they were
\* before the call, and no instruction is executed afterwards.
UnresolvableSymbolStopsRun ==
    [][/\ (progOps' # progOps /\ RunOnUnresolvable(symbols, progOp'))
          => /\ z80'.pc = z80.pc
             /\ z80'.sp = z80.sp
             /\ z80'.halted = z80.halted
       /\ (progOps' = progOps /\ RunOnUnresolvable(symbols, progOp))
          => count' <= count]_vars

\* the sound_bell call of the test is under way or over
BellCalled == progOp.prog = BellProg /\ phase # "idle"

\* C38: in the call of sound_bell (BC = 0xFF10) the memory-read hook has
\* seen 0x100 * 0x10 - 1 = 4095 reads of the DJNZ address when the call
\* returns; each execution of the DJNZ is one such read, and a DJNZ entered
\* with B = b executes b times, 256 times when b = 0: whenever the DJNZ is
\* about to run with B = b and C = c, the reads so far number 256 for each
\* pass already made (the first one short by one), plus 256 - b modulo 256.
BellLoopReadsCounted ==
    BellCalled =>
        /\ phase = "returned" => watched = (256 * 16) - 1
        /\ (phase = "running" /\ z80.pc = 8) =>
              watched = ((16 - z80.c) * 256) - 1 + ((256 - z80.b) % 256)
        /\ watched <= (256 * 16) - 1

\* the call of sound_bell has returned, the hook having counted 4095
BellCallReturned ==
    /\ BellCalled
    /\ phase = "returned"
    /\ stopReason = "callReturn"
    /\ watched = 4095
    /\ z80.c = 0

\* the call being made is a run_instruction() that executes a BIT n,r of
\* the CB prefix
ExecutesBit ==
    /\ Stepping
    /\ ~z80.halted
    /\ FetchedOpcode(Machine) = 203
    /\ SecondByte \in 64 .. 127

\* the bit that BIT instruction tests
TestedBit ==
    Bit(IF SecondByte % 8 = 6
        THEN memReadValue(memory, z80.l + z80.h * 256)
        ELSE z80[SelectedRegister(SecondByte)],
        (SecondByte \div 8) % 8)

\* the flags of BIT other than S: Z is the complement of the tested bit, P
\* equals Z, H = 1, N = 0 and C is unchanged
BitLeavesOtherFlags ==
    /\ z80'.flags.Z = 1 - TestedBit
    /\ z80'.flags.P = z80'.flags.Z
    /\ z80'.flags.H = 1
    /\ z80'.flags.N = 0
    /\ z80'.flags.C = z80.flags.C

\* C39, as claimed: after BIT n,r Z is 1 exactly when the tested bit is 0,
\* P equals Z, H = 1, N = 0, C is unchanged, and S equals Z when n = 7 and
\* is 0 otherwise.
BitSignEqualsZeroFlag ==
    [][ExecutesBit
         => /\ BitLeavesOtherFlags
            /\ z80'.flags.S = (IF (SecondByte \div 8) % 8 = 7
                               THEN z80'.flags.Z ELSE 0)]_vars

\* C39, amended: after BIT n,r Z is 1 exactly when the tested bit is 0, P
\* equals Z, H = 1, N = 0, C is unchanged, and S is the tested bit when
\* n = 7 (the complement of Z) and is 0 otherwise.
BitSignIsTestedBitSeven ==
    [][ExecutesBit
         => /\ BitLeavesOtherFlags
            /\ z80'.flags.S = (IF (SecondByte \div 8) % 8 = 7
                               THEN TestedBit ELSE 0)]_vars

\* BIT 7,A was run with A = 0xFF and carry 1: S = 1, Z = 0, P = 0, H = 1,
\* and the carry is still 1
BitSevenFoundSet ==
    /\ cpuOp.op = "run_instruction"
    /\ Backing(memory, 0) = 203 /\ Backing(memory, 1) = 127
    /\ z80.pc = 2
    /\ z80.a = 255
    /\ z80.flags.S = 1 /\ z80.flags.Z = 0 /\ z80.flags.P = 0
    /\ z80.flags.H = 1 /\ z80.flags.C = 1

\* the T-states of the instruction at the PC, counted from an empty cycle
\* counter
InstructionCost ==
    RunOneInstruction([Machine EXCEPT !.cpu.cycle_counter = 0])
        .cpu.cycle_counter

\* the T-states of the interrupt requested, when it is accepted: 11 for a
\* non-maskable one, the injected instruction's plus 2 in mode 0, 13 in
\* mode 1 and 19 in mode 2
InterruptCost(args) ==
    IF args.nmi THEN 11
    ELSE CASE z80.imode = 0 ->
                decode_instruction([Machine EXCEPT !.cpu.cycle_counter = 0],
                                   args.data).cpu.cycle_counter + 2
           [] z80.imode = 1 -> 13
           [] OTHER         -> 19

\* C40: T-states are conserved: a step returns what interrupts had left in
\* the cycle counter plus the cost of what it ran (1 when halted) less what
\* it leaves in the counter, and an interrupt adds its cost to the counter
\* when it is accepted and nothing when it is not, so that the sum of the
\* values returned plus the counter equals the sum of the costs of the
\* instructions run and of the interrupts accepted, also when the CPU was
\* halted.
InterruptTStatesConserved ==
    [][/\ Stepping
            => cpuRet' + z80'.cycle_counter
                 = z80.cycle_counter
                   + (IF z80.halted THEN 1 ELSE InstructionCost)
       /\ Interrupting
            => z80'.cycle_counter
                 = z80.cycle_counter
                   + (IF cpuOp'.args.nmi \/ z80.iff1 # 0
                      THEN InterruptCost(cpuOp'.args) ELSE 0)]_vars

====
